---- MODULE Spec2Model ----
(***************************************************************************)
(* Munnel: a reverse-tunnel TCP relay.  The model covers the server's      *)
(* broker loop (run_server), the per-connection agent sessions             *)
(* (agent_control_thread), the service listeners (service_control_thread), *)
(* reconciliation, the agent (run_agent, proxy_connection,                 *)
(* send_cancel_connection) and the line framing of utils.rs.               *)
(*                                                                         *)
(* A TCP stream is a pair of byte pipes.  A pipe is a sequence of units:   *)
(* a unit is either the newline byte NL or a run of non-newline bytes      *)
(* (a word, written as a string).  Readers consume one unit at a time.     *)
(***************************************************************************)
EXTENDS Integers, Sequences, FiniteSets, TLC

\* ------------------------------------------------------------------ bounds
\* Connections accepted on the agent control endpoint, and client
\* connections accepted on service ports, in one run of each specification.
MaxConn == 2
MaxClients == 1
PeersMaxConn == 2
PeersMaxClients == 1
RouteMaxConn == 2
RouteMaxClients == 2
ChurnMaxConn == 2
ChurnMaxClients == 1
BadKeyMaxConn == 2
BadKeyMaxClients == 1
VerbsMaxConn == 2
DupMaxConn == 2
CapMaxConn == 3
MixedMaxConn == 2
MixedMaxClients == 1
\* MAX_AGENT_CONNECTIONS scaled down, so that the cap is within reach.
Cap == 1
\* KEEP_ALIVE lines the sessions write in one run.
MaxKeepAlive == 1
HalfMaxConn == 2
HalfMaxClients == 1
KaMaxConn == 2
KaMaxKeepAlive == 1
KaMaxAgentKeepAlive == 1
OrdersMaxConn == 1
OrdersMaxClients == 2
OrdersMaxKeepAlive == 1
ReconnectMaxConn == 2
ReconnectMaxKeepAlive == 1
LinesMaxLen == 3
LinesCap == 3

\* ------------------------------------------------------- program constants
MAX_AGENT_CONNECTIONS == 1000
LINE_CAP == 4096

CMD_NEW_AGENT == "NEW_AGENT"
CMD_PSK == "PRE_SHARED_KEY"
CMD_CONNECT == "CONNECT"
CMD_OK == "OK"
CMD_KEEP_ALIVE == "KEEP_ALIVE"
CMD_DEREGISTER == "DEREGISTER"
CMD_SHUTDOWN == "SHUTDOWN"
CMD_NEW_SERVICE == "NEW_SERVICE"
CMD_CANCEL_CONNECTION == "CANCEL_CONNECTION"
DEFAULT_PRE_SHARED_KEY == "ABC123"

NL == "\n"
\* The text of a line made of more than one word (two writes that no newline
\* separates): it equals no verb, key, group name or identifier of the model.
JUNK == "<joined>"
\* A byte that is not valid UTF-8.
INVALID == "<0xFF>"

\* ------------------------------------------------------------ environment
\* Identifiers drawn by get_rand_guid, in the order they are drawn (a fresh
\* value each time: collisions are not modelled).
Guids == <<"c1", "c2", "c3", "c4", "c5", "c6">>
WRONG_KEY == "WRONG"

\* Service configurations the server may be started with.  Each is the
\* sequence in which the configuration map is iterated.
ServerConfig(n, g, b, d) ==
    [service_name |-> n, agent_group_name |-> g,
     server_bind_endpoint |-> b, agent_service_endpoint |-> d]
\* One service open to every agent, and two services bound to groups, the
\* second of which is named like the group of the first.
WebConfigs == << ServerConfig("web", "", "p1", "d1") >>
GroupConfigs ==
    << ServerConfig("a", "g1", "p1", "d1"), ServerConfig("g1", "g2", "p2", "d2") >>

\* One service name configured under two groups, and a second service; the
\* configurations are kept in a hash map, whose iteration order is any.
DupServices ==
    { ServerConfig("a", "g1", "p1", "d1"), ServerConfig("a", "g2", "p2", "d2"),
      ServerConfig("c", "g1", "p3", "d3") }
DupConfigs ==
    { q \in [1..3 -> DupServices] : \A i, j \in 1..3 : i # j => q[i] # q[j] }

\* ---------------------------------------------------------------- helpers
EmptyMap == [x \in {} |-> 0]
MapPut(f, k, v) == [x \in (DOMAIN f) \cup {k} |-> IF x = k THEN v ELSE f[x]]
MapDel(f, k) == [x \in (DOMAIN f) \ {k} |-> f[x]]
Range(s) == {s[i] : i \in DOMAIN s}
IsPrefix(p, s) == Len(p) <= Len(s) /\ SubSeq(s, 1, Len(p)) = p
InsertAt(s, pos, e) == SubSeq(s, 1, pos) \o <<e>> \o SubSeq(s, pos + 1, Len(s))
RemoveAll(s, e) == SelectSeq(s, LAMBDA x : x # e)
RECURSIVE Flatten(_)
Flatten(ss) == IF ss = <<>> THEN <<>> ELSE Head(ss) \o Flatten(Tail(ss))

\* ----------------------------------------------------------- line framing
\* The bytes of a string: nothing for "", otherwise one word.
Bytes(s) == IF s = "" THEN <<>> ELSE <<s>>
\* String::from_utf8 of a buffer of words.
Text(units) ==
    IF units = <<>> THEN ""
    ELSE IF Len(units) = 1 THEN units[1]
    ELSE JUNK

\* String::from_utf8(buf) is an Err, on which the sessions call unwrap.
NotUtf8(units) == INVALID \in Range(units)

\* An rm_newline that leaves the line as it was read.
rm_newline_keeps(l) == l

rm_newline(l) ==
    IF Len(l) > 0 /\ l[Len(l)] = NL THEN SubSeq(l, 1, Len(l) - 1) ELSE l

\* tokio_read_line_main: one unit at a time from the socket (rx) into the
\* caller's buffer, until a newline, the cap, or end of stream.  done is
\* FALSE when the call is still waiting for the stream to become readable.
RECURSIVE ReadLoop(_, _, _, _, _)
ReadLoop(rx, eof, line_bytes, total_read, max_bytes) ==
    IF total_read >= max_bytes
    THEN [rx |-> rx, buf |-> line_bytes, done |-> TRUE]
    ELSE IF rx = <<>>
    THEN [rx |-> rx, buf |-> line_bytes, done |-> eof]
    ELSE IF Head(rx) = NL
    THEN [rx |-> Tail(rx), buf |-> Append(line_bytes, NL), done |-> TRUE]
    ELSE ReadLoop(Tail(rx), eof, Append(line_bytes, Head(rx)), total_read + 1, max_bytes)

tokio_read_line_main(rx, eof, line_bytes, max_bytes) ==
    ReadLoop(rx, eof, line_bytes, 0, max_bytes)

tokio_read_line(rx, eof, line_bytes) ==
    tokio_read_line_main(rx, eof, line_bytes, LINE_CAP)

\* tokio_write_line: the bytes put on the stream for a line.
tokio_write_line(line) == line \o <<NL>>

\* What the agent writes when it opens a control stream, a data stream and a
\* cancellation stream.
AgentHandshake(key, group) ==
    <<CMD_PSK, NL>> \o Bytes(key) \o <<NL, CMD_NEW_AGENT, NL>> \o Bytes(group) \o <<NL>>
DataOpener(key, id) ==
    <<CMD_PSK, NL>> \o Bytes(key) \o <<NL, CMD_CONNECT, NL>> \o Bytes(id) \o <<NL>>
CancelCmd(id) ==
    <<CMD_CANCEL_CONNECTION, NL>> \o Bytes(id) \o <<NL>>

\* ------------------------------------------------------------------ state
VARIABLES
    configs,        \* server_service_configs, in iteration order
    broker,         \* "running", or "panicked" once run_server has unwound
    agent_control_threads_by_group_name,    \* group -> agent ids, in iteration order
    service_control_threads_by_service_name,\* name -> [agent_dest_address, counter, tx]
    pending_connections_by_id,              \* id -> [service_name, stream, agent_dest_address]
    act_q,          \* the act_tx/act_rx channel: agent sessions -> broker
    sct_q,          \* the sct_tx/sct_rx channel: service listeners -> broker
    guids,          \* number of connection identifiers drawn so far
    sessions,       \* agent_control_thread tasks, one per accepted control connection
    listeners,      \* service_control_thread tasks, by service name
    clients,        \* client connections accepted on service ports
    splices,        \* splice tasks spawned by the broker, in spawn order
    agent,          \* the agent process (run_agent)
    tasks,          \* per-connection tasks spawned by the agent (proxy_connection)
    dispatch,       \* history: what the broker decided for each client connection
    pipe            \* one stream under tokio_write_line and tokio_read_line

vars == <<configs, broker, agent_control_threads_by_group_name,
          service_control_threads_by_service_name, pending_connections_by_id,
          act_q, sct_q, guids, sessions, listeners, clients, splices, agent,
          tasks, dispatch, pipe>>

brokerVars == <<broker, agent_control_threads_by_group_name,
                service_control_threads_by_service_name, pending_connections_by_id>>
agentVars == <<agent, tasks>>

ServiceNames == {configs[i].service_name : i \in DOMAIN configs}

\* An AppCommand on the agent channel.
ActCommand(name, id, group, conn, stream) ==
    [name |-> name, id |-> id, group_name |-> group, connection_id |-> conn,
     stream |-> stream]
\* An AppCommand on the service channel.
SctCommand(name, id, stream) == [name |-> name, id |-> id, stream |-> stream]

\* A freshly spawned agent_control_thread on a stream whose peer has already
\* written `written` (and, when eof, shut the stream down).  stream says who holds the TCP stream: "owned" (the
\* session), "sent" (a command on its way to the broker), "spliced" or
\* "closed" (dropped).  lines, sent, wrote and abandoned are history: the
\* lines the session has read, the commands it has sent to the broker,
\* everything it has written to the stream, and whether a select has
\* dropped a read_line future that had put part of a line in buf.
NewSession(peer, written, eof) ==
    [pc |-> "run", verb |-> "", agent_authenticated |-> FALSE, agent_ready |-> FALSE,
     buf |-> <<>>, rx |-> written, eof |-> eof, tx |-> <<>>, tx_eof |-> FALSE,
     inbox |-> <<>>,
     stream |-> "owned", peer |-> peer, lines |-> <<>>, sent |-> <<>>, wrote |-> <<>>,
     abandoned |-> FALSE]

NoListener == [pc |-> "none", shutdown |-> FALSE]

\* A stream with the lines its writer is going to write (input), the bytes
\* in flight, the reader's buffer, and as history the lines written and the
\* lines read.
NewPipe(input) ==
    [input |-> input, stream |-> <<>>, line_bytes |-> <<>>, written |-> <<>>,
     read |-> <<>>]

\* The state before run_server and run_agent have taken a step, for a
\* server configuration of cfgSet and an agent of agentSet.
StartWith(cfgSet, agentSet) ==
    /\ configs \in cfgSet
    /\ broker = "running"
    /\ agent_control_threads_by_group_name = EmptyMap
    /\ service_control_threads_by_service_name = EmptyMap
    /\ pending_connections_by_id = EmptyMap
    /\ act_q = <<>>
    /\ sct_q = <<>>
    /\ guids = 0
    /\ sessions = <<>>
    /\ listeners = [n \in ServiceNames |-> NoListener]
    /\ clients = <<>>
    /\ splices = <<>>
    /\ agent \in agentSet
    /\ tasks = <<>>
    /\ dispatch = <<>>
    /\ pipe = NewPipe(<<>>)

\* An agent process before its first dial.
NewAgent(groupSet, keySet) ==
    [pc : {"dial"}, conn : {0}, group_name : groupSet, pre_shared_key : keySet,
     keep_alives : {0}]

Start(cfgSet, groupSet) ==
    StartWith(cfgSet, NewAgent(groupSet, {DEFAULT_PRE_SHARED_KEY}))

\* ------------------------------------------------- agent_control_thread
pre_shared_key == DEFAULT_PRE_SHARED_KEY

\* The result of one step of a session: its new state and the commands it
\* sent to the broker.
Continue(sess, cmds) == [s |-> sess, out |-> cmds]
\* agent_control_thread returns, and the task that ran it sends DEREGISTER.
Ended(sess, id, cmds) ==
    [s |-> [sess EXCEPT !.pc = "done",
                        !.stream = IF cmds = <<>> THEN "closed" ELSE "sent"],
     out |-> cmds \o <<ActCommand(CMD_DEREGISTER, id, "", "", 0)>>]

\* A handler has sent a command that carries the stream and breaks out of
\* the loop: until agent_control_thread has returned, the session still
\* holds the lock of the stream.
Leaving(sess, cmds) ==
    [s |-> [sess EXCEPT !.pc = "exiting", !.stream = "sent"], out |-> cmds]

\* agent_control_thread panics: its task unwinds, the stream is dropped and
\* the DEREGISTER that follows the call is never sent.
Panicked(sess) ==
    [s |-> [sess EXCEPT !.pc = "panicked", !.stream = "closed"], out |-> <<>>]

\* A handler whose reader had buffered what followed the argument line, so
\* that the stream it hands over has lost those bytes.
HandleArgBuffered(id, sess, verb, r) ==
    LET s1 == [sess EXCEPT !.rx = <<>>, !.buf = r.buf, !.verb = ""]
        arg == Text(rm_newline(r.buf))
        s2 == [s1 EXCEPT !.lines = Append(@, arg)]
    IN  IF r.buf = <<>> THEN Ended(s1, id, <<>>)
        ELSE IF NotUtf8(r.buf) THEN Panicked(s1)
        ELSE IF verb = CMD_PSK THEN
            IF arg = pre_shared_key
            THEN Continue([s2 EXCEPT !.rx = r.rx, !.buf = <<>>,
                                     !.agent_authenticated = TRUE, !.pc = "run"], <<>>)
            ELSE Ended([s2 EXCEPT !.buf = <<>>], id, <<>>)
        ELSE IF verb = CMD_NEW_AGENT THEN
            Continue([s2 EXCEPT !.rx = r.rx, !.buf = <<>>,
                                !.tx = @ \o tokio_write_line(<<CMD_OK>>),
                                !.wrote = @ \o tokio_write_line(<<CMD_OK>>),
                                !.agent_ready = TRUE, !.pc = "run"],
                     <<ActCommand(CMD_NEW_AGENT, id, arg, "", 0)>>)
        ELSE IF verb = CMD_CONNECT THEN
            Leaving(s2, <<ActCommand(CMD_CONNECT, id, "", arg, id)>>)
        ELSE \* CMD_CANCEL_CONNECTION
            Leaving(s2, <<ActCommand(CMD_CANCEL_CONNECTION, id, "", arg, id)>>)

\* The argument line of `verb` has been read (r): the rest of its handler.
HandleArg(id, sess, verb, r) ==
    LET s1 == [sess EXCEPT !.rx = r.rx, !.buf = r.buf, !.verb = ""]
        arg == Text(rm_newline(r.buf))
        s2 == [s1 EXCEPT !.lines = Append(@, arg)]
    IN  IF r.buf = <<>> THEN Ended(s1, id, <<>>)
        ELSE IF NotUtf8(r.buf) THEN Panicked(s1)
        ELSE IF verb = CMD_PSK THEN
            IF arg = pre_shared_key
            THEN Continue([s2 EXCEPT !.buf = <<>>, !.agent_authenticated = TRUE,
                                     !.pc = "run"], <<>>)
            ELSE Ended([s2 EXCEPT !.buf = <<>>], id, <<>>)
        ELSE IF verb = CMD_NEW_AGENT THEN
            Continue([s2 EXCEPT !.buf = <<>>,
                                !.tx = @ \o tokio_write_line(<<CMD_OK>>),
                                !.wrote = @ \o tokio_write_line(<<CMD_OK>>),
                                !.agent_ready = TRUE, !.pc = "run"],
                     <<ActCommand(CMD_NEW_AGENT, id, arg, "", 0)>>)
        ELSE IF verb = CMD_CONNECT THEN
            Leaving(s2, <<ActCommand(CMD_CONNECT, id, "", arg, id)>>)
        ELSE \* CMD_CANCEL_CONNECTION
            Leaving(s2, <<ActCommand(CMD_CANCEL_CONNECTION, id, "", arg, id)>>)

\* A session that accepts every verb whether or not the key has been given.
AcceptedVerbsOpen(sess) ==
    {CMD_PSK, CMD_NEW_AGENT, CMD_CONNECT, CMD_CANCEL_CONNECTION}

\* The verbs a session accepts, which all take one argument line.
AcceptedVerbs(sess) ==
    IF sess.agent_authenticated
    THEN {CMD_NEW_AGENT, CMD_CONNECT, CMD_CANCEL_CONNECTION}
    ELSE {CMD_PSK}

\* A line has been read in the select loop (r): dispatch on the verb.
Dispatch(id, sess, r) ==
    LET s1 == [sess EXCEPT !.rx = r.rx, !.buf = <<>>]
        command == Text(rm_newline(r.buf))
        s2 == [s1 EXCEPT !.lines = Append(@, command)]
        r2 == tokio_read_line(r.rx, sess.eof, <<>>)
    IN  IF r.buf = <<>> THEN Ended(s1, id, <<>>)
        ELSE IF NotUtf8(r.buf) THEN Panicked(s1)
        ELSE IF command \in AcceptedVerbs(sess) THEN
            IF r2.done THEN HandleArg(id, s2, command, r2)
            ELSE Continue([s2 EXCEPT !.pc = "arg", !.verb = command,
                                     !.rx = r2.rx, !.buf = r2.buf], <<>>)
        ELSE Ended(s2, id, <<>>)

CommandNames(cmds) == [i \in DOMAIN cmds |-> cmds[i].name]

SessionOutcome(s, res) ==
    /\ sessions' = [sessions EXCEPT ![s] = [res.s EXCEPT !.sent = @ \o CommandNames(res.out)]]
    /\ act_q' = act_q \o res.out

\* A read_line branch whose reader keeps what it has read of a line in a
\* buffer of its own, which is lost when the select drops the future.
SessionReadForgets(s) ==
    /\ broker = "running"
    /\ sessions[s].pc = "run"
    /\ sessions[s].rx # <<>> \/ sessions[s].eof
    /\ LET sess == sessions[s]
           r == tokio_read_line(sess.rx, sess.eof, sess.buf)
       IN  SessionOutcome(s, IF r.done THEN Dispatch(s, sess, r)
                             ELSE Continue([sess EXCEPT !.rx = r.rx, !.buf = <<>>], <<>>))
    /\ UNCHANGED <<configs, pipe, brokerVars, sct_q, guids, listeners, clients, splices,
                   agentVars, dispatch>>

\* The read_line branch of the select loop.
SessionRead(s) ==
    /\ broker = "running"
    /\ sessions[s].pc = "run"
    /\ sessions[s].rx # <<>> \/ sessions[s].eof
    /\ LET sess == sessions[s]
           r == tokio_read_line(sess.rx, sess.eof, sess.buf)
       IN  SessionOutcome(s, IF r.done THEN Dispatch(s, sess, r)
                             ELSE Continue([sess EXCEPT !.rx = r.rx, !.buf = r.buf], <<>>))
    /\ UNCHANGED <<configs, pipe, brokerVars, sct_q, guids, listeners, clients, splices,
                   agentVars, dispatch>>

\* A handler's read of its argument line, which had not arrived with the verb.
SessionArg(s) ==
    /\ broker = "running"
    /\ sessions[s].pc = "arg"
    /\ sessions[s].rx # <<>> \/ sessions[s].eof
    /\ LET sess == sessions[s]
           r == tokio_read_line(sess.rx, sess.eof, sess.buf)
       IN  SessionOutcome(s, IF r.done THEN HandleArg(s, sess, sess.verb, r)
                             ELSE Continue([sess EXCEPT !.rx = r.rx, !.buf = r.buf], <<>>))
    /\ UNCHANGED <<configs, pipe, brokerVars, sct_q, guids, listeners, clients, splices,
                   agentVars, dispatch>>

\* agent_control_thread returns after a break that followed a command with
\* the stream: the lock is released and the task sends DEREGISTER.
SessionExit(s) ==
    /\ broker = "running"
    /\ sessions[s].pc = "exiting"
    /\ sessions' = [sessions EXCEPT ![s].pc = "done",
                                    ![s].sent = Append(@, CMD_DEREGISTER)]
    /\ act_q' = Append(act_q, ActCommand(CMD_DEREGISTER, s, "", "", 0))
    /\ UNCHANGED <<configs, pipe, brokerVars, sct_q, guids, listeners, clients, splices,
                   agentVars, dispatch>>

\* An order that carries the identifier before the destination.
ConnectOrderIdFirst(m) ==
    tokio_write_line(<<CMD_CONNECT, NL>> \o Bytes(m.connection_id) \o <<NL>>
                     \o Bytes(m.agent_dest_address))

\* The bytes of a CONNECT order on a control stream.
ConnectOrder(m) ==
    tokio_write_line(<<CMD_CONNECT, NL>> \o Bytes(m.agent_dest_address) \o <<NL>>
                     \o Bytes(m.connection_id))

\* The recv_cmd branch of the select loop: a command from the broker.
SessionRecv(s) ==
    /\ broker = "running"
    /\ sessions[s].pc = "run"
    /\ sessions[s].inbox # <<>>
    /\ LET m == Head(sessions[s].inbox)
       IN  sessions' = [sessions EXCEPT ![s].inbox = Tail(@),
                                        ![s].tx = @ \o ConnectOrder(m),
                                        ![s].wrote = @ \o ConnectOrder(m),
                                        ![s].abandoned = @ \/ sessions[s].buf # <<>>]
    /\ UNCHANGED <<configs, pipe, brokerVars, act_q, sct_q, guids, listeners, clients,
                   splices, agentVars, dispatch>>

\* The ka_timer branch of the select loop: a session whose agent has
\* completed the handshake writes a KEEP_ALIVE line.
KeepAlives ==
    Len(SelectSeq(Flatten([s \in DOMAIN sessions |-> sessions[s].wrote]),
                  LAMBDA u : u = CMD_KEEP_ALIVE))

\* A timer branch that writes whether or not the agent has registered.
SessionKeepAliveAlways(s, maxKeepAlive) ==
    /\ broker = "running"
    /\ sessions[s].pc = "run"
    /\ KeepAlives < maxKeepAlive
    /\ sessions' = [sessions EXCEPT
           ![s].tx = @ \o tokio_write_line(<<CMD_KEEP_ALIVE>>),
           ![s].wrote = @ \o tokio_write_line(<<CMD_KEEP_ALIVE>>),
           ![s].abandoned = @ \/ sessions[s].buf # <<>>]
    /\ UNCHANGED <<configs, pipe, brokerVars, act_q, sct_q, guids, listeners, clients,
                   splices, agentVars, dispatch>>

SessionKeepAlive(s, maxKeepAlive) ==
    /\ broker = "running"
    /\ sessions[s].pc = "run"
    /\ sessions[s].agent_ready
    /\ KeepAlives < maxKeepAlive
    /\ sessions' = [sessions EXCEPT
           ![s].tx = @ \o tokio_write_line(<<CMD_KEEP_ALIVE>>),
           ![s].wrote = @ \o tokio_write_line(<<CMD_KEEP_ALIVE>>),
           ![s].abandoned = @ \/ sessions[s].buf # <<>>]
    /\ UNCHANGED <<configs, pipe, brokerVars, act_q, sct_q, guids, listeners, clients,
                   splices, agentVars, dispatch>>

\* ----------------------------------------------------------- run_server
get_connected_agent_count(abg) ==
    LET RECURSIVE Sum(_)
        Sum(gs) == IF gs = {} THEN 0
                   ELSE LET g == CHOOSE x \in gs : TRUE
                        IN  Len(abg[g]) + Sum(gs \ {g})
    IN  Sum(DOMAIN abg)

get_service_group_names(service_name, services) ==
    SelectSeq([i \in DOMAIN services |-> services[i].service_name],
              LAMBDA n : n = service_name) \o <<"">>

\* The supporting_agents vector built by the service CONNECT handler.
SupportingAgents(service_name, abg) ==
    LET names == get_service_group_names(service_name, configs)
    IN  Flatten([i \in DOMAIN names |->
                    IF names[i] \in DOMAIN abg THEN abg[names[i]] ELSE <<>>])

\* reconcile_agents_and_services from the i-th configuration on.  st holds
\* the listener handles (svc), the listener tasks (lis) and whether an
\* unwrap has panicked.
RECURSIVE ReconcileFrom(_, _, _)
ReconcileFrom(i, abg, st) ==
    IF i > Len(configs) \/ st.panic THEN st
    ELSE
      LET sc == configs[i]
          service_name == sc.service_name
          can_support ==
              \E agent_gn \in DOMAIN abg :
                  /\ Len(abg[agent_gn]) > 0
                  /\ agent_gn = "" \/ agent_gn = sc.agent_group_name
          next ==
              IF can_support THEN
                  IF service_name \in DOMAIN st.svc THEN st
                  ELSE [st EXCEPT
                          !.svc = MapPut(@, service_name,
                                     [agent_dest_address |-> sc.agent_service_endpoint,
                                      counter |-> 1, tx |-> FALSE]),
                          !.lis[service_name] = [pc |-> "spawned", shutdown |-> FALSE]]
              ELSE
                  IF service_name \in DOMAIN st.svc THEN
                      IF ~st.svc[service_name].tx THEN [st EXCEPT !.panic = TRUE]
                      ELSE IF st.lis[service_name].pc = "listening"
                           THEN [st EXCEPT !.lis[service_name].shutdown = TRUE]
                           ELSE st
                  ELSE st
      IN  ReconcileFrom(i + 1, abg, next)

reconcile_agents_and_services(abg) ==
    LET st == ReconcileFrom(1, abg,
                  [svc |-> service_control_threads_by_service_name,
                   lis |-> listeners, panic |-> FALSE])
    IN  /\ broker' = IF st.panic THEN "panicked" ELSE "running"
        /\ service_control_threads_by_service_name' = st.svc
        /\ listeners' = st.lis

\* The reconcile_timer branch of the broker loop.
ReconcileTick ==
    /\ broker = "running"
    /\ reconcile_agents_and_services(agent_control_threads_by_group_name)
    /\ UNCHANGED <<configs, pipe, agent_control_threads_by_group_name,
                   pending_connections_by_id, act_q, sct_q, guids, sessions,
                   clients, splices, agentVars, dispatch>>

\* The listener.accept() branch: the stream gets a session unless the cap
\* is reached, in which case it is dropped.
AcceptUnder(cap, peer, written, eof) ==
    /\ broker = "running"
    /\ sessions' = Append(sessions,
          IF get_connected_agent_count(agent_control_threads_by_group_name) >= cap
          THEN [NewSession(peer, written, eof) EXCEPT !.pc = "refused", !.stream = "closed"]
          ELSE NewSession(peer, written, eof))

Accept(peer, written, eof) == AcceptUnder(MAX_AGENT_CONNECTIONS, peer, written, eof)

\* Agent channel, CMD_NEW_AGENT.  The position of a new key in the bucket's
\* iteration order is not determined.
ActNewAgent ==
    /\ broker = "running"
    /\ act_q # <<>>
    /\ Head(act_q).name = CMD_NEW_AGENT
    /\ LET mcmd == Head(act_q)
           group_name == mcmd.group_name
           abg == agent_control_threads_by_group_name
           bucket == IF group_name \in DOMAIN abg THEN abg[group_name] ELSE <<>>
       IN  \E pos \in 0..Len(bucket) :
             /\ mcmd.id \in Range(bucket) => pos = 0
             /\ LET abg2 == MapPut(abg, group_name,
                               IF mcmd.id \in Range(bucket) THEN bucket
                               ELSE InsertAt(bucket, pos, mcmd.id))
                IN  /\ agent_control_threads_by_group_name' = abg2
                    /\ reconcile_agents_and_services(abg2)
    /\ act_q' = Tail(act_q)
    /\ UNCHANGED <<configs, pipe, pending_connections_by_id, sct_q, guids, sessions,
                   clients, splices, agentVars, dispatch>>

\* A rendezvous that takes whatever entry is pending, whichever identifier
\* the data stream presented.
ActConnectAnyPending ==
    /\ broker = "running"
    /\ act_q # <<>>
    /\ Head(act_q).name = CMD_CONNECT
    /\ LET mcmd == Head(act_q)
       IN  IF pending_connections_by_id # EmptyMap
           THEN LET connection_id == CHOOSE c \in DOMAIN pending_connections_by_id : TRUE
                    pending_mcmd == pending_connections_by_id[connection_id]
                IN  /\ pending_connections_by_id' =
                           MapDel(pending_connections_by_id, connection_id)
                    /\ splices' = Append(splices,
                           [connection_id |-> connection_id,
                            server_stream |-> pending_mcmd.stream,
                            agent_stream |-> mcmd.stream, pc |-> "locking"])
                    /\ clients' = [clients EXCEPT ![pending_mcmd.stream].state = "spliced"]
                    /\ sessions' = [sessions EXCEPT ![mcmd.stream].stream = "spliced"]
           ELSE /\ sessions' = [sessions EXCEPT ![mcmd.stream].stream = "closed"]
                /\ UNCHANGED <<pending_connections_by_id, splices, clients>>
    /\ act_q' = Tail(act_q)
    /\ UNCHANGED <<configs, pipe, broker, agent_control_threads_by_group_name,
                   service_control_threads_by_service_name, sct_q, guids,
                   listeners, agentVars, dispatch>>

\* A rendezvous that, finding no entry under the identifier presented, gives
\* up every pending client stream.
ActConnectMissForgets ==
    /\ broker = "running"
    /\ act_q # <<>>
    /\ Head(act_q).name = CMD_CONNECT
    /\ LET mcmd == Head(act_q)
           connection_id == mcmd.connection_id
       IN  IF connection_id \in DOMAIN pending_connections_by_id
           THEN LET pending_mcmd == pending_connections_by_id[connection_id]
                IN  /\ pending_connections_by_id' =
                           MapDel(pending_connections_by_id, connection_id)
                    /\ splices' = Append(splices,
                           [connection_id |-> connection_id,
                            server_stream |-> pending_mcmd.stream,
                            agent_stream |-> mcmd.stream, pc |-> "locking"])
                    /\ clients' = [clients EXCEPT ![pending_mcmd.stream].state = "spliced"]
                    /\ sessions' = [sessions EXCEPT ![mcmd.stream].stream = "spliced"]
           ELSE /\ sessions' = [sessions EXCEPT ![mcmd.stream].stream = "closed"]
                /\ pending_connections_by_id' = EmptyMap
                /\ UNCHANGED <<splices, clients>>
    /\ act_q' = Tail(act_q)
    /\ UNCHANGED <<configs, pipe, broker, agent_control_threads_by_group_name,
                   service_control_threads_by_service_name, sct_q, guids,
                   listeners, agentVars, dispatch>>

\* Agent channel, CMD_CONNECT: the rendezvous of a data stream with a pending
\* client stream.
ActConnect ==
    /\ broker = "running"
    /\ act_q # <<>>
    /\ Head(act_q).name = CMD_CONNECT
    /\ LET mcmd == Head(act_q)
           connection_id == mcmd.connection_id
       IN  IF connection_id \in DOMAIN pending_connections_by_id
           THEN LET pending_mcmd == pending_connections_by_id[connection_id]
                IN  /\ pending_connections_by_id' =
                           MapDel(pending_connections_by_id, connection_id)
                    /\ splices' = Append(splices,
                           [connection_id |-> connection_id,
                            server_stream |-> pending_mcmd.stream,
                            agent_stream |-> mcmd.stream, pc |-> "locking"])
                    /\ clients' = [clients EXCEPT ![pending_mcmd.stream].state = "spliced"]
                    /\ sessions' = [sessions EXCEPT ![mcmd.stream].stream = "spliced"]
           ELSE /\ sessions' = [sessions EXCEPT ![mcmd.stream].stream = "closed"]
                /\ UNCHANGED <<pending_connections_by_id, splices, clients>>
    /\ act_q' = Tail(act_q)
    /\ UNCHANGED <<configs, pipe, broker, agent_control_threads_by_group_name,
                   service_control_threads_by_service_name, sct_q, guids,
                   listeners, agentVars, dispatch>>

\* A CANCEL_CONNECTION handler that looks the entry up and leaves it.
ActCancelConnectionKeeps ==
    /\ broker = "running"
    /\ act_q # <<>>
    /\ Head(act_q).name = CMD_CANCEL_CONNECTION
    /\ sessions' = [sessions EXCEPT ![Head(act_q).stream].stream = "closed"]
    /\ act_q' = Tail(act_q)
    /\ UNCHANGED <<configs, pipe, brokerVars, sct_q, guids, listeners, clients,
                   splices, agentVars, dispatch>>

\* Agent channel, CMD_CANCEL_CONNECTION.
ActCancelConnection ==
    /\ broker = "running"
    /\ act_q # <<>>
    /\ Head(act_q).name = CMD_CANCEL_CONNECTION
    /\ LET mcmd == Head(act_q)
           connection_id == mcmd.connection_id
       IN  /\ sessions' = [sessions EXCEPT ![mcmd.stream].stream = "closed"]
           /\ IF connection_id \in DOMAIN pending_connections_by_id
              THEN /\ pending_connections_by_id' =
                          MapDel(pending_connections_by_id, connection_id)
                   /\ clients' = [clients EXCEPT
                          ![pending_connections_by_id[connection_id].stream].state = "dropped"]
              ELSE UNCHANGED <<pending_connections_by_id, clients>>
    /\ act_q' = Tail(act_q)
    /\ UNCHANGED <<configs, pipe, broker, agent_control_threads_by_group_name,
                   service_control_threads_by_service_name, sct_q, guids,
                   listeners, splices, agentVars, dispatch>>

\* A DEREGISTER loop that removes the first agent of every bucket, whichever
\* session the message came from.
DeregisteredFirst(abg, agent_thread_id) ==
    LET keep == {key \in DOMAIN abg : Len(abg[key]) > 1}
    IN  [key \in keep |-> Tail(abg[key])]

\* A DEREGISTER loop that removes the agent and keeps the buckets it leaves
\* empty.
DeregisteredKeepsBuckets(abg, agent_thread_id) ==
    [key \in DOMAIN abg |-> RemoveAll(abg[key], agent_thread_id)]

\* The registry after the DEREGISTER loop: the agent is removed from every
\* bucket that holds it, and a bucket left empty is removed.
Deregistered(abg, agent_thread_id) ==
    LET keep == {key \in DOMAIN abg :
                    ~(agent_thread_id \in Range(abg[key]) /\ Len(abg[key]) = 1)}
    IN  [key \in keep |-> RemoveAll(abg[key], agent_thread_id)]

\* A DEREGISTER handler that also gives up the pending connections.
ActDeregisterDropsPending ==
    /\ broker = "running"
    /\ act_q # <<>>
    /\ Head(act_q).name = CMD_DEREGISTER
    /\ LET abg2 == Deregistered(agent_control_threads_by_group_name, Head(act_q).id)
       IN  /\ agent_control_threads_by_group_name' = abg2
           /\ reconcile_agents_and_services(abg2)
    /\ pending_connections_by_id' = EmptyMap
    /\ act_q' = Tail(act_q)
    /\ UNCHANGED <<configs, pipe, sct_q, guids, sessions, clients, splices, agentVars,
                   dispatch>>

\* Agent channel, CMD_DEREGISTER.
ActDeregister ==
    /\ broker = "running"
    /\ act_q # <<>>
    /\ Head(act_q).name = CMD_DEREGISTER
    /\ LET abg2 == Deregistered(agent_control_threads_by_group_name, Head(act_q).id)
       IN  /\ agent_control_threads_by_group_name' = abg2
           /\ reconcile_agents_and_services(abg2)
    /\ act_q' = Tail(act_q)
    /\ UNCHANGED <<configs, pipe, pending_connections_by_id, sct_q, guids, sessions,
                   clients, splices, agentVars, dispatch>>

\* Service channel, CMD_NEW_SERVICE: the handle gets the listener's channel.
\* The unwrap panics when the handle is absent.
SctNewService ==
    /\ broker = "running"
    /\ sct_q # <<>>
    /\ Head(sct_q).name = CMD_NEW_SERVICE
    /\ LET service_name == Head(sct_q).id
       IN  IF service_name \in DOMAIN service_control_threads_by_service_name
           THEN /\ service_control_threads_by_service_name' =
                       [service_control_threads_by_service_name
                           EXCEPT ![service_name].tx = TRUE]
                /\ UNCHANGED broker
           ELSE /\ broker' = "panicked"
                /\ UNCHANGED service_control_threads_by_service_name
    /\ sct_q' = Tail(sct_q)
    /\ UNCHANGED <<configs, pipe, agent_control_threads_by_group_name,
                   pending_connections_by_id, act_q, guids, sessions, listeners,
                   clients, splices, agentVars, dispatch>>

\* Service channel, CMD_DEREGISTER.
SctDeregister ==
    /\ broker = "running"
    /\ sct_q # <<>>
    /\ Head(sct_q).name = CMD_DEREGISTER
    /\ service_control_threads_by_service_name' =
           MapDel(service_control_threads_by_service_name, Head(sct_q).id)
    /\ sct_q' = Tail(sct_q)
    /\ UNCHANGED <<configs, pipe, broker, agent_control_threads_by_group_name,
                   pending_connections_by_id, act_q, guids, sessions, listeners,
                   clients, splices, agentVars, dispatch>>

\* A round-robin that starts one place further.
ChosenIndexShifted(counter, n) == (counter + 1) % n

\* The index (from 0) the round-robin picks in a vector of n agents.
ChosenIndex(counter, n) == counter % n

\* Whether a send on the channel of agent session s succeeds: its receiver
\* lives until agent_control_thread returns.
ChannelOpen(s) == sessions[s].pc \in {"run", "arg", "exiting"}

\* Service channel, CMD_CONNECT: a client connection accepted by a listener.
SctConnect ==
    /\ broker = "running"
    /\ sct_q # <<>>
    /\ Head(sct_q).name = CMD_CONNECT
    /\ LET mcmd == Head(sct_q)
           service_name == mcmd.id
           svc == service_control_threads_by_service_name
           abg == agent_control_threads_by_group_name
       IN  IF service_name \in DOMAIN svc
           THEN LET sct == svc[service_name]
                    counter == sct.counter
                    connection_id == Guids[guids + 1]
                    pending_mcmd == [service_name |-> service_name,
                                     stream |-> mcmd.stream,
                                     agent_dest_address |-> sct.agent_dest_address]
                    supporting_agents == SupportingAgents(service_name, abg)
                    n == Len(supporting_agents)
                    chosen_agent == IF n > 0
                                    THEN supporting_agents[ChosenIndex(counter, n) + 1]
                                    ELSE 0
                    agent_mcmd == [connection_id |-> connection_id,
                                   agent_dest_address |-> sct.agent_dest_address]
                    delivered == n > 0 /\ ChannelOpen(chosen_agent)
                IN  /\ guids' = guids + 1
                    /\ pending_connections_by_id' =
                           MapPut(pending_connections_by_id, connection_id, pending_mcmd)
                    /\ clients' = [clients EXCEPT ![mcmd.stream].state = "pending"]
                    /\ service_control_threads_by_service_name' =
                           IF n > 0 THEN [svc EXCEPT ![service_name].counter = counter + 1]
                           ELSE svc
                    /\ sessions' =
                           IF delivered
                           THEN [sessions EXCEPT ![chosen_agent].inbox = Append(@, agent_mcmd)]
                           ELSE sessions
                    /\ dispatch' = Append(dispatch,
                           [stream |-> mcmd.stream, service_name |-> service_name,
                            connection_id |-> connection_id,
                            agent_dest_address |-> sct.agent_dest_address,
                            supporting_agents |-> supporting_agents,
                            counter |-> counter, chosen_agent |-> chosen_agent,
                            delivered |-> delivered, registry |-> abg])
           ELSE /\ clients' = [clients EXCEPT ![mcmd.stream].state = "dropped"]
                /\ UNCHANGED <<guids, pending_connections_by_id,
                               service_control_threads_by_service_name, sessions,
                               dispatch>>
    /\ sct_q' = Tail(sct_q)
    /\ UNCHANGED <<configs, pipe, broker, agent_control_threads_by_group_name, act_q,
                   listeners, splices, agentVars>>

\* ------------------------------------------------ service_control_thread
\* A spawned listener binds its endpoint and registers with the broker; when
\* the bind fails it returns, and the task that ran it sends DEREGISTER.
\* bindMayFail says whether the environment may hold the endpoint.
ListenerStart(n, bindMayFail) ==
    /\ broker = "running"
    /\ listeners[n].pc = "spawned"
    /\ \/ /\ listeners' = [listeners EXCEPT ![n].pc = "listening"]
          /\ sct_q' = Append(sct_q, SctCommand(CMD_NEW_SERVICE, n, 0))
       \/ /\ bindMayFail
          /\ listeners' = [listeners EXCEPT ![n] = NoListener]
          /\ sct_q' = Append(sct_q, SctCommand(CMD_DEREGISTER, n, 0))
    /\ UNCHANGED <<configs, pipe, brokerVars, act_q, guids, sessions, clients, splices,
                   agentVars, dispatch>>

\* The listener accepts a client connection and hands the stream to the broker.
\* rx holds what the client has written and the server has not read, recv
\* what the server has written to the client; sent is history.
ListenerAccept(n, maxClients) ==
    /\ broker = "running"
    /\ listeners[n].pc = "listening"
    /\ Len(clients) < maxClients
    /\ clients' = Append(clients, [service_name |-> n, state |-> "queued",
                                   rx |-> <<>>, recv |-> <<>>, sent |-> <<>>,
                                   eof |-> FALSE, recv_eof |-> FALSE])
    /\ sct_q' = Append(sct_q, SctCommand(CMD_CONNECT, n, Len(clients) + 1))
    /\ UNCHANGED <<configs, pipe, brokerVars, act_q, guids, sessions, listeners, splices,
                   agentVars, dispatch>>

\* The listener receives SHUTDOWN and returns; the task sends DEREGISTER.
ListenerShutdown(n) ==
    /\ broker = "running"
    /\ listeners[n].pc = "listening"
    /\ listeners[n].shutdown
    /\ listeners' = [listeners EXCEPT ![n] = NoListener]
    /\ sct_q' = Append(sct_q, SctCommand(CMD_DEREGISTER, n, 0))
    /\ UNCHANGED <<configs, pipe, brokerVars, act_q, guids, sessions, clients, splices,
                   agentVars, dispatch>>

\* ------------------------------------------------------------ run_agent
\* The server's end of stream c is gone: dropped by the server, or the
\* server process has died.
ServerClosed(c) == broker = "panicked" \/ sessions[c].stream = "closed"

\* BufReader::read_line on the bytes the server has written (no cap).
read_line(tx, closed) == ReadLoop(tx, closed, <<>>, 0, Len(tx) + 1)

\* The agent dials the server and writes its handshake; the server's accept
\* is taken at the same step.  A dial fails when the server is gone.
AgentDial(maxConn) ==
    /\ agent.pc = "dial"
    /\ IF broker = "running"
       THEN /\ Len(sessions) < maxConn
            /\ Accept("agent", AgentHandshake(agent.pre_shared_key, agent.group_name),
                      FALSE)
            /\ agent' = [agent EXCEPT !.pc = "handshake", !.conn = Len(sessions) + 1]
       ELSE /\ agent' = [agent EXCEPT !.pc = "backoff", !.conn = 0]
            /\ UNCHANGED sessions
    /\ UNCHANGED <<configs, pipe, brokerVars, act_q, sct_q, guids, listeners, clients,
                   splices, tasks, dispatch>>

\* An agent that enters its inner loop whatever the reply to its handshake.
AgentHandshakeReadAny ==
    /\ agent.pc = "handshake"
    /\ LET c == agent.conn
           r == read_line(sessions[c].tx, ServerClosed(c))
       IN  /\ r.done
           /\ agent' = [agent EXCEPT !.pc = "inner"]
           /\ sessions' = [sessions EXCEPT ![c].tx = r.rx]
    /\ UNCHANGED <<configs, pipe, brokerVars, act_q, sct_q, guids, listeners, clients,
                   splices, tasks, dispatch>>

\* The agent reads the reply to its handshake: OK enters the inner loop,
\* anything else or end of stream abandons the stream.
AgentHandshakeRead ==
    /\ agent.pc = "handshake"
    /\ LET c == agent.conn
           r == read_line(sessions[c].tx, ServerClosed(c))
       IN  /\ r.done
           /\ IF r.buf # <<>> /\ Text(rm_newline(r.buf)) = CMD_OK
              THEN /\ agent' = [agent EXCEPT !.pc = "inner"]
                   /\ sessions' = [sessions EXCEPT ![c].tx = r.rx]
              ELSE /\ agent' = [agent EXCEPT !.pc = "backoff", !.conn = 0]
                   /\ sessions' = [sessions EXCEPT ![c].tx = r.rx, ![c].eof = TRUE]
    /\ UNCHANGED <<configs, pipe, brokerVars, act_q, sct_q, guids, listeners, clients,
                   splices, tasks, dispatch>>

\* A per-connection task, as spawned by the inner loop.  from_dest holds what
\* the destination has written and the agent has not read, to_dest what the
\* agent has written to the destination; dest_sent is history, and so is
\* dest_late, the number of bytes the destination wrote after the agent had
\* shut down the write side towards it.
NewTask(dest_address, connection_id) ==
    [pc |-> "spawned", dest_address |-> dest_address, connection_id |-> connection_id,
     conn |-> 0, from_dest |-> <<>>, to_dest |-> <<>>, dest_sent |-> <<>>,
     dest_eof |-> FALSE, to_dest_eof |-> FALSE, dest_late |-> 0]

\* The read branch of the agent's inner loop.
AgentInnerRead ==
    /\ agent.pc = "inner"
    /\ LET c == agent.conn
           closed == ServerClosed(c)
           r == read_line(sessions[c].tx, closed)
           response == Text(rm_newline(r.buf))
           r2 == read_line(r.rx, closed)
           r3 == read_line(r2.rx, closed)
       IN  /\ r.done
           /\ IF r.buf = <<>>
              THEN /\ agent' = [agent EXCEPT !.pc = "backoff", !.conn = 0]
                   /\ sessions' = [sessions EXCEPT ![c].eof = TRUE]
                   /\ UNCHANGED tasks
              ELSE IF response = CMD_CONNECT
              THEN /\ r2.done /\ r3.done
                   /\ sessions' = [sessions EXCEPT ![c].tx = r3.rx]
                   /\ tasks' = IF r2.buf # <<>> /\ r3.buf # <<>>
                               THEN Append(tasks, NewTask(Text(rm_newline(r2.buf)),
                                                          Text(rm_newline(r3.buf))))
                               ELSE tasks
                   /\ UNCHANGED agent
              ELSE /\ sessions' = [sessions EXCEPT ![c].tx = r.rx]
                   /\ UNCHANGED <<agent, tasks>>
    /\ UNCHANGED <<configs, pipe, brokerVars, act_q, sct_q, guids, listeners, clients,
                   splices, dispatch>>

\* The ka_timer branch of the agent's inner loop.  The tick ends the select
\* and drops the read_line future of the other branch together with what
\* that future had taken off the stream: the bytes of a line whose newline
\* had not arrived yet (at most the first unit of tx, when it is no
\* newline).  The agent then writes KEEP_ALIVE with no newline after it; a
\* write on a stream the server has closed breaks out of the loop.
AgentKeepAlive(maxKeepAlive) ==
    /\ agent.pc = "inner"
    /\ agent.keep_alives < maxKeepAlive
    /\ LET c == agent.conn
       IN  \E partial \in {0, 1} :
               /\ partial = 1 => (sessions[c].tx # <<>> /\ Head(sessions[c].tx) # NL)
               /\ IF ServerClosed(c)
                  THEN /\ agent' = [agent EXCEPT !.pc = "backoff", !.conn = 0,
                                                 !.keep_alives = @ + 1]
                       /\ sessions' = [sessions EXCEPT
                              ![c].tx = SubSeq(@, partial + 1, Len(@)),
                              ![c].eof = TRUE]
                  ELSE /\ agent' = [agent EXCEPT !.keep_alives = @ + 1]
                       /\ sessions' = [sessions EXCEPT
                              ![c].tx = SubSeq(@, partial + 1, Len(@)),
                              ![c].rx = @ \o Bytes(CMD_KEEP_ALIVE)]
    /\ UNCHANGED <<configs, pipe, brokerVars, act_q, sct_q, guids, listeners, clients,
                   splices, tasks, dispatch>>

\* A run_agent that returns instead of sleeping and dialling again.
AgentBackoffReturns ==
    /\ agent.pc = "backoff"
    /\ agent' = [agent EXCEPT !.pc = "returned"]
    /\ UNCHANGED <<configs, pipe, brokerVars, act_q, sct_q, guids, sessions, listeners,
                   clients, splices, tasks, dispatch>>

\* The sleep before the next dial.
AgentBackoff ==
    /\ agent.pc = "backoff"
    /\ agent' = [agent EXCEPT !.pc = "dial"]
    /\ UNCHANGED <<configs, pipe, brokerVars, act_q, sct_q, guids, sessions, listeners,
                   clients, splices, tasks, dispatch>>

\* proxy_connection, destination reachable: the task opens a data stream to
\* the server, writes the opener and starts its splice.
TaskProxy(t, maxConn) ==
    /\ tasks[t].pc = "spawned"
    /\ IF broker = "running"
       THEN /\ Len(sessions) < maxConn
            /\ Accept("task", DataOpener(agent.pre_shared_key, tasks[t].connection_id),
                      FALSE)
            /\ tasks' = [tasks EXCEPT ![t].pc = "splicing", ![t].conn = Len(sessions) + 1]
       ELSE /\ tasks' = [tasks EXCEPT ![t].pc = "done"]
            /\ UNCHANGED sessions
    /\ UNCHANGED <<configs, pipe, brokerVars, act_q, sct_q, guids, listeners, clients,
                   splices, agent, dispatch>>

\* proxy_connection, destination unreachable: send_cancel_connection opens a
\* stream to the server, writes the cancellation and drops the stream.
TaskCancel(t, maxConn) ==
    /\ tasks[t].pc = "spawned"
    /\ IF broker = "running"
       THEN /\ Len(sessions) < maxConn
            /\ Accept("cancel", CancelCmd(tasks[t].connection_id), TRUE)
            /\ tasks' = [tasks EXCEPT ![t].pc = "cancelled", ![t].conn = Len(sessions) + 1]
       ELSE /\ tasks' = [tasks EXCEPT ![t].pc = "done"]
            /\ UNCHANGED sessions
    /\ UNCHANGED <<configs, pipe, brokerVars, act_q, sct_q, guids, listeners, clients,
                   splices, agent, dispatch>>

\* ------------------------------------------------------------ other peers
\* What a peer other than the agent may write when it connects to the agent
\* control endpoint: a wrong key, a verb before any key, the handshake of an
\* agent of some group (an agent that then stays silent), and a data-stream
\* opener for an identifier.
BadKey == <<CMD_PSK, NL, WRONG_KEY, NL>>
NoKey == <<CMD_NEW_AGENT, NL, NL>>
KeyOnly == <<CMD_PSK, NL>>
AuthCancel(id) == <<CMD_PSK, NL, pre_shared_key, NL>> \o CancelCmd(id)

\* A line that is no verb of the protocol.
Leave == <<"BYE", NL>>
\* An agent that registers and then sends a line that is not UTF-8.
BadUtf8 == AgentHandshake(pre_shared_key, "") \o <<INVALID, NL>>
\* An agent that registers and then presents a connection identifier on the
\* same stream.
RegisterThenConnect(id) ==
    AgentHandshake(pre_shared_key, "") \o <<CMD_CONNECT, NL>> \o Bytes(id) \o <<NL>>
\* An agent that registers and then writes a KEEP_ALIVE line.
KeepAliveLine ==
    AgentHandshake(pre_shared_key, "") \o tokio_write_line(<<CMD_KEEP_ALIVE>>)
\* A key holder that sends NEW_AGENT twice, for two groups.
TwoGroups(g1, g2) ==
    AgentHandshake(pre_shared_key, g1) \o <<CMD_NEW_AGENT, NL>> \o Bytes(g2) \o <<NL>>

PeerConnect(script, maxConn) ==
    /\ Len(sessions) < maxConn
    /\ Accept("peer", script, FALSE)
    /\ UNCHANGED <<configs, pipe, brokerVars, act_q, sct_q, guids, listeners, clients,
                   splices, agentVars, dispatch>>

\* A peer connects to a server whose cap on agents is cap.
PeerConnectUnder(cap, script, maxConn) ==
    /\ Len(sessions) < maxConn
    /\ AcceptUnder(cap, "peer", script, FALSE)
    /\ UNCHANGED <<configs, pipe, brokerVars, act_q, sct_q, guids, listeners, clients,
                   splices, agentVars, dispatch>>

\* The peer closes its connection.
PeerClose(s) ==
    /\ sessions[s].peer = "peer"
    /\ ~sessions[s].eof
    /\ sessions' = [sessions EXCEPT ![s].eof = TRUE]
    /\ UNCHANGED <<configs, pipe, brokerVars, act_q, sct_q, guids, listeners, clients,
                   splices, agentVars, dispatch>>

\* ------------------------------------------------------------ tunnel bytes
\* The bytes a client and a destination write, one at a time.
ClientPayload == <<"x1", "x2">>
DestPayload == <<"y1", "y2">>

ClientWrite(k) ==
    /\ clients[k].state # "dropped"
    /\ ~clients[k].eof
    /\ Len(clients[k].sent) < Len(ClientPayload)
    /\ LET b == ClientPayload[Len(clients[k].sent) + 1]
       IN  clients' = [clients EXCEPT ![k].rx = Append(@, b), ![k].sent = Append(@, b)]
    /\ UNCHANGED <<configs, pipe, brokerVars, act_q, sct_q, guids, sessions, listeners,
                   splices, agentVars, dispatch>>

\* The client shuts down the write side of its connection.
ClientClose(k) ==
    /\ clients[k].state # "dropped"
    /\ ~clients[k].eof
    /\ clients' = [clients EXCEPT ![k].eof = TRUE]
    /\ UNCHANGED <<configs, pipe, brokerVars, act_q, sct_q, guids, sessions, listeners,
                   splices, agentVars, dispatch>>

DestWrite(t) ==
    /\ tasks[t].pc = "splicing"
    /\ ~tasks[t].dest_eof
    /\ Len(tasks[t].dest_sent) < Len(DestPayload)
    /\ LET b == DestPayload[Len(tasks[t].dest_sent) + 1]
       IN  tasks' = [tasks EXCEPT ![t].from_dest = Append(@, b),
                                  ![t].dest_sent = Append(@, b),
                                  ![t].dest_late = IF tasks[t].to_dest_eof
                                                   THEN @ + 1 ELSE @]
    /\ UNCHANGED <<configs, pipe, brokerVars, act_q, sct_q, guids, sessions, listeners,
                   clients, splices, agent, dispatch>>

\* The destination shuts down the write side of its connection.
DestClose(t) ==
    /\ tasks[t].pc = "splicing"
    /\ ~tasks[t].dest_eof
    /\ tasks' = [tasks EXCEPT ![t].dest_eof = TRUE]
    /\ UNCHANGED <<configs, pipe, brokerVars, act_q, sct_q, guids, sessions, listeners,
                   clients, splices, agent, dispatch>>

\* A copy that writes a chunk back to front.
copy_reversed(chunk) == [i \in 1..Len(chunk) |-> chunk[Len(chunk) + 1 - i]]

\* What a splice writes to one stream for a chunk it has read from the other.
copy_bidirectional(chunk) == chunk

\* A splice that returns as soon as one of its directions has ended.
copy_returns_first(a_to_b, b_to_a) == a_to_b \/ b_to_a

\* io::copy_bidirectional returns when both of its directions have ended:
\* each direction ends by reading the end of its source and shutting down
\* the write side of its sink.
copy_returns(a_to_b, b_to_a) == a_to_b /\ b_to_a

\* A splice that does not wait for the lock of the agent stream.
StreamUnlockedAlways(s) == TRUE

\* The guard the session took on its stream (agent_control_thread, first
\* statement) has been dropped: the session has returned or unwound.
StreamUnlocked(s) == sessions[s].pc \in {"done", "panicked"}

\* The broker's splice task takes the locks of its two streams.  The client
\* stream was locked by nobody; the agent stream is locked by its session
\* until that returns.
SpliceLock(i) ==
    /\ broker = "running"
    /\ splices[i].pc = "locking"
    /\ StreamUnlocked(splices[i].agent_stream)
    /\ splices' = [splices EXCEPT ![i].pc = "copying"]
    /\ UNCHANGED <<configs, pipe, brokerVars, act_q, sct_q, guids, sessions, listeners,
                   clients, agentVars, dispatch>>

\* The broker's splice task, client to agent direction: a chunk is copied,
\* or the end of the client's stream is read and the write side of the
\* agent stream is shut down.
SpliceFromClient(i) ==
    /\ broker = "running"
    /\ splices[i].pc = "copying"
    /\ LET k == splices[i].server_stream
           s == splices[i].agent_stream
       IN  /\ ~sessions[s].tx_eof
           /\ IF clients[k].rx # <<>>
              THEN /\ sessions' = [sessions EXCEPT
                          ![s].tx = @ \o copy_bidirectional(clients[k].rx)]
                   /\ clients' = [clients EXCEPT ![k].rx = <<>>]
                   /\ UNCHANGED splices
              ELSE /\ clients[k].eof
                   /\ sessions' = [sessions EXCEPT ![s].tx_eof = TRUE]
                   /\ splices' = IF copy_returns(clients[k].recv_eof, TRUE)
                                 THEN [splices EXCEPT ![i].pc = "finished"]
                                 ELSE splices
                   /\ UNCHANGED clients
    /\ UNCHANGED <<configs, pipe, brokerVars, act_q, sct_q, guids, listeners,
                   agentVars, dispatch>>

\* The broker's splice task, agent to client direction.
SpliceFromAgent(i) ==
    /\ broker = "running"
    /\ splices[i].pc = "copying"
    /\ LET k == splices[i].server_stream
           s == splices[i].agent_stream
       IN  /\ ~clients[k].recv_eof
           /\ IF sessions[s].rx # <<>>
              THEN /\ clients' = [clients EXCEPT
                          ![k].recv = @ \o copy_bidirectional(sessions[s].rx)]
                   /\ sessions' = [sessions EXCEPT ![s].rx = <<>>]
                   /\ UNCHANGED splices
              ELSE /\ sessions[s].eof
                   /\ clients' = [clients EXCEPT ![k].recv_eof = TRUE]
                   /\ splices' = IF copy_returns(TRUE, sessions[s].tx_eof)
                                 THEN [splices EXCEPT ![i].pc = "finished"]
                                 ELSE splices
                   /\ UNCHANGED sessions
    /\ UNCHANGED <<configs, pipe, brokerVars, act_q, sct_q, guids, listeners,
                   agentVars, dispatch>>

\* The agent's splice task, destination to server direction.
TaskFromDest(t) ==
    /\ tasks[t].pc = "splicing"
    /\ ~sessions[tasks[t].conn].eof
    /\ IF tasks[t].from_dest # <<>>
       THEN /\ sessions' = [sessions EXCEPT
                   ![tasks[t].conn].rx = @ \o copy_bidirectional(tasks[t].from_dest)]
            /\ tasks' = [tasks EXCEPT ![t].from_dest = <<>>]
       ELSE /\ tasks[t].dest_eof
            /\ sessions' = [sessions EXCEPT ![tasks[t].conn].eof = TRUE]
            /\ tasks' = IF copy_returns(TRUE, tasks[t].to_dest_eof)
                        THEN [tasks EXCEPT ![t].pc = "finished"]
                        ELSE tasks
    /\ UNCHANGED <<configs, pipe, brokerVars, act_q, sct_q, guids, listeners, clients,
                   splices, agent, dispatch>>

\* The agent's splice task, server to destination direction.
TaskToDest(t) ==
    /\ tasks[t].pc = "splicing"
    /\ ~tasks[t].to_dest_eof
    /\ IF sessions[tasks[t].conn].tx # <<>>
       THEN /\ tasks' = [tasks EXCEPT
                   ![t].to_dest = @ \o copy_bidirectional(sessions[tasks[t].conn].tx)]
            /\ sessions' = [sessions EXCEPT ![tasks[t].conn].tx = <<>>]
       ELSE /\ sessions[tasks[t].conn].tx_eof
            /\ tasks' = [tasks EXCEPT
                   ![t].to_dest_eof = TRUE,
                   ![t].pc = IF copy_returns(sessions[tasks[t].conn].eof, TRUE)
                             THEN "finished" ELSE @]
            /\ UNCHANGED sessions
    /\ UNCHANGED <<configs, pipe, brokerVars, act_q, sct_q, guids, listeners, clients,
                   splices, agent, dispatch>>

\* --------------------------------------------------------- specifications
\* The broker loop and the sessions.  The argument read of a
\* session is a step of its own only where a peer writes a verb alone.
Broker ==
    \/ ReconcileTick
    \/ ActNewAgent
    \/ ActConnect
    \/ ActCancelConnection
    \/ ActDeregister
    \/ SctNewService
    \/ SctConnect
    \/ \E s \in DOMAIN sessions : SessionRead(s)
    \/ \E s \in DOMAIN sessions : SessionRecv(s)
    \/ \E s \in DOMAIN sessions : SessionExit(s)

\* One agent tunnelling for one open service, with the bytes of the tunnels.
\* The agent is never closed by the server here, so it never backs off; the
\* keep-alive timers are left to SpecBadKey and the cancellations that give
\* the key to SpecPeers.
Init == Start({WebConfigs}, {""})

Next ==
    \/ ReconcileTick
    \/ ActNewAgent
    \/ ActConnect
    \/ ActDeregister
    \/ SctNewService
    \/ SctConnect
    \/ \E s \in DOMAIN sessions : SessionRead(s)
    \/ \E s \in DOMAIN sessions : SessionRecv(s)
    \/ \E s \in DOMAIN sessions : SessionExit(s)
    \/ \E n \in ServiceNames : ListenerStart(n, FALSE)
    \/ \E n \in ServiceNames : ListenerAccept(n, MaxClients)
    \/ AgentDial(MaxConn)
    \/ AgentHandshakeRead
    \/ AgentInnerRead
    \/ \E t \in DOMAIN tasks : TaskProxy(t, MaxConn)
    \/ \E t \in DOMAIN tasks : TaskCancel(t, MaxConn)
    \/ \E k \in DOMAIN clients : ClientWrite(k)
    \/ \E t \in DOMAIN tasks : DestWrite(t)
    \/ \E i \in DOMAIN splices : SpliceLock(i)
    \/ \E i \in DOMAIN splices : SpliceFromClient(i)
    \/ \E i \in DOMAIN splices : SpliceFromAgent(i)
    \/ \E t \in DOMAIN tasks : TaskFromDest(t)
    \/ \E t \in DOMAIN tasks : TaskToDest(t)

Spec == Init /\ [][Next]_vars

\* Scripted peers on the agent control endpoint of one open service: an
\* agent that registers and stays silent, and streams that present a wrong
\* key, no key, a connection identifier, or a cancellation with and without
\* the key.
PeersScripts ==
    { AgentHandshake(pre_shared_key, ""), BadKey, NoKey,
      DataOpener(pre_shared_key, Guids[1]), DataOpener(pre_shared_key, Guids[2]),
      CancelCmd(Guids[1]), AuthCancel(Guids[1]) }

PeersInit == Start({WebConfigs}, {""})

PeersNext ==
    \/ Broker
    \/ \E n \in ServiceNames : ListenerStart(n, FALSE)
    \/ \E n \in ServiceNames : ListenerAccept(n, PeersMaxClients)
    \/ \E script \in PeersScripts : PeerConnect(script, PeersMaxConn)

SpecPeers == PeersInit /\ [][PeersNext]_vars

\* Silent agents of three groups registering for two group-bound services.
RouteScripts == { AgentHandshake(pre_shared_key, g) : g \in {"", "g1", "g2"} }

RouteInit == Start({GroupConfigs}, {""})

RouteNext ==
    \/ ReconcileTick
    \/ ActNewAgent
    \/ SctNewService
    \/ SctConnect
    \/ \E s \in DOMAIN sessions : SessionRead(s)
    \/ \E s \in DOMAIN sessions : SessionRecv(s)
    \/ \E n \in ServiceNames : ListenerStart(n, FALSE)
    \/ \E n \in ServiceNames : ListenerAccept(n, RouteMaxClients)
    \/ \E script \in RouteScripts : PeerConnect(script, RouteMaxConn)

SpecRoute == RouteInit /\ [][RouteNext]_vars

\* Agents that register and stay silent and peers that present a wrong key,
\* with the keep-alive timer of the sessions and a service endpoint that may
\* be taken.
BadKeyScripts == { AgentHandshake(pre_shared_key, ""), BadKey }

BadKeyInit == Start({WebConfigs}, {""})

BadKeyNext ==
    \/ ReconcileTick
    \/ ActNewAgent
    \/ ActDeregister
    \/ SctNewService
    \/ SctDeregister
    \/ SctConnect
    \/ \E s \in DOMAIN sessions : SessionRead(s)
    \/ \E s \in DOMAIN sessions : SessionRecv(s)
    \/ \E s \in DOMAIN sessions : SessionKeepAlive(s, MaxKeepAlive)
    \/ \E n \in ServiceNames : ListenerStart(n, TRUE)
    \/ \E n \in ServiceNames : ListenerAccept(n, BadKeyMaxClients)
    \/ \E script \in BadKeyScripts : PeerConnect(script, BadKeyMaxConn)

SpecBadKey == BadKeyInit /\ [][BadKeyNext]_vars

\* Peers that come and go, one of which writes a verb and nothing after it,
\* and a service endpoint that may be taken.
ChurnScripts == { AgentHandshake(pre_shared_key, ""), BadKey, KeyOnly }

ChurnInit == Start({WebConfigs}, {""})

ChurnNext ==
    \/ ReconcileTick
    \/ ActNewAgent
    \/ ActDeregister
    \/ SctNewService
    \/ SctDeregister
    \/ SctConnect
    \/ \E s \in DOMAIN sessions : SessionRead(s)
    \/ \E s \in DOMAIN sessions : SessionArg(s)
    \/ \E s \in DOMAIN sessions : SessionRecv(s)
    \/ \E n \in ServiceNames : ListenerStart(n, TRUE)
    \/ \E n \in ServiceNames : ListenerAccept(n, ChurnMaxClients)
    \/ \E n \in ServiceNames : ListenerShutdown(n)
    \/ \E script \in ChurnScripts : PeerConnect(script, ChurnMaxConn)
    \/ \E s \in DOMAIN sessions : PeerClose(s)

SpecChurn == ChurnInit /\ [][ChurnNext]_vars

\* Key holders that send more than one verb on a stream: an agent that
\* registers and stays silent, one that registers for a second group and
\* then sends a line that ends its session, and one that registers and
\* then sends bytes that are no text.
VerbsScripts ==
    { AgentHandshake(pre_shared_key, ""), TwoGroups("", "g1") \o Leave, BadUtf8 }

VerbsInit == Start({WebConfigs}, {""})

VerbsNext ==
    \/ ReconcileTick
    \/ ActNewAgent
    \/ ActDeregister
    \/ SctNewService
    \/ SctDeregister
    \/ \E s \in DOMAIN sessions : SessionRead(s)
    \/ \E n \in ServiceNames : ListenerStart(n, FALSE)
    \/ \E n \in ServiceNames : ListenerShutdown(n)
    \/ \E script \in VerbsScripts : PeerConnect(script, VerbsMaxConn)

SpecVerbs == VerbsInit /\ [][VerbsNext]_vars

\* The same under the scheduling of the runtime: the broker loop and every
\* spawned task are polled again and again, so a step that stays possible
\* is taken.  Nothing obliges a peer to connect.
VerbsFairness ==
    /\ WF_vars(ReconcileTick)
    /\ WF_vars(ActNewAgent)
    /\ WF_vars(ActDeregister)
    /\ WF_vars(SctNewService)
    /\ WF_vars(SctDeregister)
    /\ \A s \in 1..VerbsMaxConn : WF_vars(s \in DOMAIN sessions /\ SessionRead(s))
    /\ \A n \in {"web"} : WF_vars(ListenerStart(n, FALSE))
    /\ \A n \in {"web"} : WF_vars(ListenerShutdown(n))

SpecVerbsFair == VerbsInit /\ [][VerbsNext]_vars /\ VerbsFairness

\* Silent agents registering for a service name that is configured under
\* two groups.
DupScripts == { AgentHandshake(pre_shared_key, g) : g \in {"", "g1"} }

DupInit == Start(DupConfigs, {""})

DupNext ==
    \/ ReconcileTick
    \/ ActNewAgent
    \/ SctNewService
    \/ \E s \in DOMAIN sessions : SessionRead(s)
    \/ \E n \in ServiceNames : ListenerStart(n, FALSE)
    \/ \E script \in DupScripts : PeerConnect(script, DupMaxConn)

SpecDup == DupInit /\ [][DupNext]_vars

\* Agents of two groups connecting to a server whose cap is small.
CapScripts == { AgentHandshake(pre_shared_key, g) : g \in {"", "g1"} }

CapInit == Start({WebConfigs}, {""})

CapNext ==
    \/ ReconcileTick
    \/ ActNewAgent
    \/ SctNewService
    \/ \E s \in DOMAIN sessions : SessionRead(s)
    \/ \E n \in ServiceNames : ListenerStart(n, FALSE)
    \/ \E script \in CapScripts : PeerConnectUnder(Cap, script, CapMaxConn)

SpecCap == CapInit /\ [][CapNext]_vars

\* An agent that uses its control stream as a data stream.
MixedScripts == { RegisterThenConnect(Guids[1]) }

MixedInit == Start({WebConfigs}, {""})

MixedNext ==
    \/ ReconcileTick
    \/ ActNewAgent
    \/ ActConnect
    \/ ActDeregister
    \/ SctNewService
    \/ SctConnect
    \/ \E s \in DOMAIN sessions : SessionRead(s)
    \/ \E s \in DOMAIN sessions : SessionRecv(s)
    \/ \E s \in DOMAIN sessions : SessionExit(s)
    \/ \E n \in ServiceNames : ListenerStart(n, FALSE)
    \/ \E n \in ServiceNames : ListenerAccept(n, MixedMaxClients)
    \/ \E script \in MixedScripts : PeerConnect(script, MixedMaxConn)

SpecMixed == MixedInit /\ [][MixedNext]_vars

\* Two lines of up to LinesMaxLen bytes each, written with tokio_write_line
\* and read back with tokio_read_line_main under a cap of LinesCap bytes.  A
\* byte is a newline or one of two other bytes.
LineBytes == {"a", "b", NL}
LinesOfLen(n) == [1..n -> LineBytes]
LinesInputs == UNION { LinesOfLen(n) : n \in 0..LinesMaxLen }

LinesInit ==
    /\ configs = WebConfigs
    /\ broker = "running"
    /\ agent_control_threads_by_group_name = EmptyMap
    /\ service_control_threads_by_service_name = EmptyMap
    /\ pending_connections_by_id = EmptyMap
    /\ act_q = <<>>
    /\ sct_q = <<>>
    /\ guids = 0
    /\ sessions = <<>>
    /\ listeners = [n \in ServiceNames |-> NoListener]
    /\ clients = <<>>
    /\ splices = <<>>
    /\ agent = [pc |-> "dial", conn |-> 0, group_name |-> "",
                pre_shared_key |-> DEFAULT_PRE_SHARED_KEY, keep_alives |-> 0]
    /\ tasks = <<>>
    /\ dispatch = <<>>
    /\ pipe \in { NewPipe(<<l1, l2>>) : l1 \in LinesInputs, l2 \in LinesInputs }

\* The writer writes its next line.
LineWrite ==
    /\ pipe.input # <<>>
    /\ pipe' = [pipe EXCEPT !.input = Tail(@),
                            !.stream = @ \o tokio_write_line(Head(pipe.input)),
                            !.written = Append(@, Head(pipe.input))]
    /\ UNCHANGED <<configs, brokerVars, act_q, sct_q, guids, sessions, listeners,
                   clients, splices, agentVars, dispatch>>

\* The reader calls the read function on a readable stream and, once the
\* call has returned, takes the line with rm_newline and a fresh buffer.
LineRead ==
    /\ pipe.stream # <<>>
    /\ LET r == tokio_read_line_main(pipe.stream, FALSE, pipe.line_bytes, LinesCap)
       IN  pipe' = IF r.done
                   THEN [pipe EXCEPT !.stream = r.rx, !.line_bytes = <<>>,
                                     !.read = Append(@, rm_newline(r.buf))]
                   ELSE [pipe EXCEPT !.stream = r.rx, !.line_bytes = r.buf]
    /\ UNCHANGED <<configs, brokerVars, act_q, sct_q, guids, sessions, listeners,
                   clients, splices, agentVars, dispatch>>

LinesNext ==
    \/ LineWrite
    \/ LineRead

SpecLines == LinesInit /\ [][LinesNext]_vars

\* An agent of group g1 that holds the key or a wrong one, next to a peer of
\* group g2 that registers and leaves, on a server with a service for each
\* group: the agent's handshake may be refused and the server may go down
\* under it.
ReconnectScripts == { AgentHandshake(pre_shared_key, "g2") \o Leave }

ReconnectInit ==
    StartWith({GroupConfigs}, NewAgent({"g1"}, {DEFAULT_PRE_SHARED_KEY, WRONG_KEY}))

ReconnectNext ==
    \/ ReconcileTick
    \/ ActNewAgent
    \/ ActDeregister
    \/ SctNewService
    \/ \E s \in DOMAIN sessions : SessionRead(s)
    \/ \E n \in ServiceNames : ListenerStart(n, FALSE)
    \/ AgentDial(ReconnectMaxConn)
    \/ AgentHandshakeRead
    \/ AgentInnerRead
    \/ AgentKeepAlive(ReconnectMaxKeepAlive)
    \/ AgentBackoff
    \/ \E script \in ReconnectScripts : PeerConnect(script, ReconnectMaxConn)

SpecReconnect == ReconnectInit /\ [][ReconnectNext]_vars

\* The same under the scheduling of the agent's runtime: run_agent is one
\* task, which is polled again and again, and its sleep ends and its
\* connect returns.  Nothing is assumed of the server, of the peer or of
\* the keep-alive timer.
ReconnectFairness ==
    WF_vars(\/ AgentDial(ReconnectMaxConn)
            \/ AgentHandshakeRead
            \/ AgentInnerRead
            \/ AgentBackoff)

SpecReconnectFair == ReconnectInit /\ [][ReconnectNext]_vars /\ ReconnectFairness

\* One agent tunnelling for one open service, with a client and a
\* destination that write and shut down their write sides in any order.
HalfInit == Start({WebConfigs}, {""})

HalfNext ==
    \/ ReconcileTick
    \/ ActNewAgent
    \/ ActConnect
    \/ ActDeregister
    \/ SctNewService
    \/ SctConnect
    \/ \E s \in DOMAIN sessions : SessionRead(s)
    \/ \E s \in DOMAIN sessions : SessionRecv(s)
    \/ \E s \in DOMAIN sessions : SessionExit(s)
    \/ \E n \in ServiceNames : ListenerStart(n, FALSE)
    \/ \E n \in ServiceNames : ListenerAccept(n, HalfMaxClients)
    \/ AgentDial(HalfMaxConn)
    \/ AgentHandshakeRead
    \/ AgentInnerRead
    \/ \E t \in DOMAIN tasks : TaskProxy(t, HalfMaxConn)
    \/ \E k \in DOMAIN clients : ClientWrite(k)
    \/ \E k \in DOMAIN clients : ClientClose(k)
    \/ \E t \in DOMAIN tasks : DestWrite(t)
    \/ \E t \in DOMAIN tasks : DestClose(t)
    \/ \E i \in DOMAIN splices : SpliceLock(i)
    \/ \E i \in DOMAIN splices : SpliceFromClient(i)
    \/ \E i \in DOMAIN splices : SpliceFromAgent(i)
    \/ \E t \in DOMAIN tasks : TaskFromDest(t)
    \/ \E t \in DOMAIN tasks : TaskToDest(t)

SpecHalfClose == HalfInit /\ [][HalfNext]_vars

\* One agent on its control stream with its keep-alive timer, and clients
\* whose connections the broker orders the agent to proxy.
OrdersInit == Start({WebConfigs}, {""})

OrdersNext ==
    \/ ReconcileTick
    \/ ActNewAgent
    \/ SctNewService
    \/ SctConnect
    \/ \E s \in DOMAIN sessions : SessionRead(s)
    \/ \E s \in DOMAIN sessions : SessionRecv(s)
    \/ \E n \in ServiceNames : ListenerStart(n, FALSE)
    \/ \E n \in ServiceNames : ListenerAccept(n, OrdersMaxClients)
    \/ AgentDial(OrdersMaxConn)
    \/ AgentHandshakeRead
    \/ AgentInnerRead
    \/ AgentKeepAlive(OrdersMaxKeepAlive)

SpecOrders == OrdersInit /\ [][OrdersNext]_vars

\* The agent and the sessions with their keep-alive timers, and a peer that
\* registers and then writes a whole KEEP_ALIVE line.
KaScripts == { KeepAliveLine }

KaInit == Start({WebConfigs}, {""})

KaNext ==
    \/ ReconcileTick
    \/ ActNewAgent
    \/ ActDeregister
    \/ SctNewService
    \/ \E s \in DOMAIN sessions : SessionRead(s)
    \/ \E s \in DOMAIN sessions : SessionKeepAlive(s, KaMaxKeepAlive)
    \/ \E n \in ServiceNames : ListenerStart(n, FALSE)
    \/ AgentDial(KaMaxConn)
    \/ AgentHandshakeRead
    \/ AgentInnerRead
    \/ AgentKeepAlive(KaMaxAgentKeepAlive)
    \/ \E script \in KaScripts : PeerConnect(script, KaMaxConn)

SpecKeepAlive == KaInit /\ [][KaNext]_vars

\* ------------------------------------------------------------------ claims
\* The identifier a data stream presented: the line after its CONNECT verb.
Presented(s) ==
    IF Len(sessions[s].lines) = 4 /\ sessions[s].lines[3] = CMD_CONNECT
    THEN sessions[s].lines[4] ELSE "<none>"
\* The identifier the broker stored client stream k under.
StoredUnder(k) ==
    {dispatch[d].connection_id : d \in {e \in DOMAIN dispatch : dispatch[e].stream = k}}

Matched == {p \in (DOMAIN tasks) \X (DOMAIN splices) :
               tasks[p[1]].pc = "splicing" /\ splices[p[2]].agent_stream = tasks[p[1]].conn}

\* C2: for a matched connection, what the agent has written to the
\* destination is a prefix of what the client has written to the service
\* port, and what the server has written to the client is a prefix of what
\* the destination has written.
C2_ByteFidelity ==
    \A p \in Matched :
        /\ IsPrefix(tasks[p[1]].to_dest, clients[splices[p[2]].server_stream].sent)
        /\ IsPrefix(clients[splices[p[2]].server_stream].recv, tasks[p[1]].dest_sent)

\* Both payloads have crossed a matched connection whole.
C2_Witness ==
    \E p \in Matched :
        /\ tasks[p[1]].to_dest = ClientPayload
        /\ clients[splices[p[2]].server_stream].recv = DestPayload

\* The payload task t has written on its data stream after the opener.
Payload(t) ==
    SubSeq(tasks[t].dest_sent, 1, Len(tasks[t].dest_sent) - Len(tasks[t].from_dest))

\* C3: on a data stream of the agent the session's framed reads take lines
\* of the opener only, and once it has handed the stream to the broker the
\* payload written behind the opener is whole: in the stream while the
\* rendezvous is due, and in what the client has received followed by what
\* is still in the stream once spliced.
C3_NoOverRead ==
    \A t \in DOMAIN tasks :
        tasks[t].pc = "splicing" =>
            LET s == tasks[t].conn
                opener == <<CMD_PSK, pre_shared_key, CMD_CONNECT, tasks[t].connection_id>>
            IN  /\ IsPrefix(sessions[s].lines, opener)
                /\ sessions[s].pc = "done" => sessions[s].lines = opener
                /\ sessions[s].stream \in {"owned", "sent"} =>
                       \E n \in 0..Len(opener) * 2 :
                           sessions[s].buf \o sessions[s].rx =
                               SubSeq(DataOpener(pre_shared_key, tasks[t].connection_id),
                                      n + 1, Len(opener) * 2) \o Payload(t)
                /\ sessions[s].stream = "sent" => sessions[s].rx = Payload(t)
                /\ \A i \in DOMAIN splices :
                       splices[i].agent_stream = s =>
                           clients[splices[i].server_stream].recv \o sessions[s].rx
                               = Payload(t)

\* The opener of a data stream has been consumed while the whole payload of
\* the destination was already behind it, and the payload is still there.
C3_Witness ==
    \E t \in DOMAIN tasks :
        /\ tasks[t].pc = "splicing"
        /\ sessions[tasks[t].conn].stream = "sent"
        /\ sessions[tasks[t].conn].lines =
               <<CMD_PSK, pre_shared_key, CMD_CONNECT, tasks[t].connection_id>>
        /\ sessions[tasks[t].conn].rx = DestPayload

\* The messages of a session that only an authenticated stream may cause.
GatedVerbs == {CMD_NEW_AGENT, CMD_CONNECT, CMD_CANCEL_CONNECTION}
SentGated(s) == {i \in DOMAIN sessions[s].sent : sessions[s].sent[i] \in GatedVerbs}

\* C4: a session has sent NEW_AGENT, CONNECT or CANCEL_CONNECTION to the
\* broker only if the first line it read was PRE_SHARED_KEY and the second
\* the configured key; a session whose first line is anything else has
\* ended and has sent none of them.
C4_AuthenticationGate ==
    \A s \in DOMAIN sessions :
        /\ SentGated(s) # {} =>
               /\ Len(sessions[s].lines) >= 2
               /\ sessions[s].lines[1] = CMD_PSK
               /\ sessions[s].lines[2] = pre_shared_key
        /\ (sessions[s].lines # <<>> /\ sessions[s].lines[1] # CMD_PSK) =>
               /\ sessions[s].pc = "done"
               /\ SentGated(s) = {}

\* One session has given the key and sent a message, and another has ended
\* on a cancellation that came before any key.
C4_Witness ==
    /\ \E s \in DOMAIN sessions :
           /\ SentGated(s) # {}
           /\ sessions[s].lines[1] = CMD_PSK
    /\ \E s \in DOMAIN sessions :
           /\ sessions[s].lines = <<CMD_CANCEL_CONNECTION>>
           /\ sessions[s].pc = "done"
           /\ sessions[s].sent = <<CMD_DEREGISTER>>

\* The session read PRE_SHARED_KEY and then a line that is not the key.
BadKeySession(s) ==
    /\ Len(sessions[s].lines) = 2
    /\ sessions[s].lines[1] = CMD_PSK
    /\ sessions[s].lines[2] # pre_shared_key
\* The broker handles the DEREGISTER of a session that gave a wrong key.
BadKeyDeregister ==
    /\ ActDeregister
    /\ BadKeySession(Head(act_q).id)
\* Such a session has ended having written nothing and sent nothing but its
\* DEREGISTER.
BadKeyEnds ==
    \A s \in DOMAIN sessions :
        BadKeySession(s) =>
            /\ sessions[s].pc = "done"
            /\ sessions[s].stream = "closed"
            /\ sessions[s].wrote = <<>>
            /\ sessions[s].sent = <<CMD_DEREGISTER>>

\* C5 as stated: a session that gave a wrong key ends having written nothing,
\* and the handling of its DEREGISTER leaves the agent registry, the pending
\* connections and the listener handles as they were.
C5_BadKeyLeavesAll ==
    /\ []BadKeyEnds
    /\ [][BadKeyDeregister =>
             /\ agent_control_threads_by_group_name' = agent_control_threads_by_group_name
             /\ pending_connections_by_id' = pending_connections_by_id
             /\ service_control_threads_by_service_name'
                    = service_control_threads_by_service_name]_vars

\* C5: a session that gave a wrong key ends having written nothing, and the
\* handling of its DEREGISTER leaves the agent registry and the pending
\* connections as they were; it keeps every listener handle as it was and
\* may add fresh handles, since the handler ends with a reconciliation.
C5_BadKeyLeavesRegistry ==
    /\ []BadKeyEnds
    /\ [][BadKeyDeregister =>
             /\ agent_control_threads_by_group_name' = agent_control_threads_by_group_name
             /\ pending_connections_by_id' = pending_connections_by_id
             /\ \A n \in DOMAIN service_control_threads_by_service_name :
                    /\ n \in DOMAIN service_control_threads_by_service_name'
                    /\ service_control_threads_by_service_name'[n]
                           = service_control_threads_by_service_name[n]
             /\ \A n \in DOMAIN service_control_threads_by_service_name' :
                    n \notin DOMAIN service_control_threads_by_service_name =>
                        /\ service_control_threads_by_service_name'[n].counter = 1
                        /\ ~service_control_threads_by_service_name'[n].tx]_vars

\* The DEREGISTER of a session that gave a wrong key has been handled while
\* an agent was registered.
C5_Witness ==
    /\ agent_control_threads_by_group_name # EmptyMap
    /\ \E s \in DOMAIN sessions :
           /\ BadKeySession(s)
           /\ sessions[s].pc = "done"
           /\ \A i \in DOMAIN act_q : act_q[i].id # s

\* The agent group a service is configured with.
ServiceGroup(service_name) ==
    (CHOOSE sc \in Range(configs) : sc.service_name = service_name).agent_group_name
\* The agents registered with group g in registry abg.
Registered(abg, g) == IF g \in DOMAIN abg THEN Range(abg[g]) ELSE {}
\* The group agent a is registered with in registry abg.
GroupOf(abg, a) == CHOOSE g \in DOMAIN abg : a \in Range(abg[g])

\* C6 as stated: at every client connection the broker handled, the agents
\* it chose from were the agents registered with group "" together with
\* those registered with the group the service is configured with.
C6_CandidateSet ==
    \A d \in DOMAIN dispatch :
        Range(dispatch[d].supporting_agents) =
            Registered(dispatch[d].registry, "")
                \cup Registered(dispatch[d].registry, ServiceGroup(dispatch[d].service_name))

\* C7 as stated: an agent registered with a non-empty group is sent a
\* CONNECT order only for a service configured with group "" or with the
\* agent's group.
C7_GroupIsolation ==
    \A d \in DOMAIN dispatch :
        (dispatch[d].delivered /\ GroupOf(dispatch[d].registry, dispatch[d].chosen_agent) # "") =>
            ServiceGroup(dispatch[d].service_name)
                \in {"", GroupOf(dispatch[d].registry, dispatch[d].chosen_agent)}

\* The connections the broker handled for the service of the d-th, up to
\* and including the d-th.
SameService(d) ==
    {e \in 1..d : dispatch[e].service_name = dispatch[d].service_name}

\* C8: when every connection handled for a service so far has met the same
\* list of N > 0 candidates, the j-th of them finds the counter at j and
\* goes to the candidate at index j mod N.
C8_RoundRobin ==
    \A d \in DOMAIN dispatch :
        LET L == dispatch[d].supporting_agents
            j == Cardinality(SameService(d))
        IN  (L # <<>> /\ \A e \in SameService(d) : dispatch[e].supporting_agents = L) =>
                /\ dispatch[d].counter = j
                /\ dispatch[d].chosen_agent = L[(j % Len(L)) + 1]

\* A second connection to a service has met the same two candidates as the
\* first.
C8_Witness ==
    \E d \in DOMAIN dispatch :
        /\ Cardinality(SameService(d)) = 2
        /\ Len(dispatch[d].supporting_agents) = 2
        /\ \A e \in SameService(d) :
               dispatch[e].supporting_agents = dispatch[d].supporting_agents

\* The broker handles a client connection for a service that has a listener
\* handle and no candidate agent.
ConnectWithoutCandidate ==
    /\ SctConnect
    /\ Head(sct_q).id \in DOMAIN service_control_threads_by_service_name
    /\ SupportingAgents(Head(sct_q).id, agent_control_threads_by_group_name) = <<>>

\* C9 as stated: handling a client connection for a service with no
\* candidate agent drops the client stream and leaves the pending
\* connections as they were.
C9_NoAgentAvailable ==
    [][ConnectWithoutCandidate =>
          /\ pending_connections_by_id' = pending_connections_by_id
          /\ clients'[Head(sct_q).stream].state = "dropped"]_vars

\* The session of the cancellation stream of task t has ended and the
\* broker has handled everything it sent.
CancelHandled(t) ==
    /\ tasks[t].pc = "cancelled"
    /\ sessions[tasks[t].conn].pc = "done"
    /\ \A i \in DOMAIN act_q : act_q[i].id # tasks[t].conn

\* C10 as stated: once the server has dealt with the cancellation stream an
\* agent opened for a connection it could not carry to the destination,
\* the pending entry of the connection is gone and its client stream is
\* closed.
C10_DestinationUnreachable ==
    \A t \in DOMAIN tasks :
        CancelHandled(t) =>
            /\ tasks[t].connection_id \notin DOMAIN pending_connections_by_id
            /\ \A k \in DOMAIN clients :
                   tasks[t].connection_id \in StoredUnder(k) => clients[k].state = "dropped"

\* The broker takes a CONNECT off the agent channel whose identifier has no
\* pending entry.
ConnectMiss ==
    /\ act_q # <<>>
    /\ Head(act_q).name = CMD_CONNECT
    /\ Head(act_q).connection_id \notin DOMAIN pending_connections_by_id
    /\ act_q' = Tail(act_q)

\* C11: a CONNECT whose identifier is not pending starts no splice, the data
\* stream that carried it is discarded, and the agent registry, the service
\* handles and the pending connections are unchanged.
C11_RendezvousMiss ==
    [][ConnectMiss =>
          /\ splices' = splices
          /\ sessions'[Head(act_q).stream].stream = "closed"
          /\ \A i \in DOMAIN splices' : splices'[i].agent_stream # Head(act_q).stream
          /\ UNCHANGED <<agent_control_threads_by_group_name,
                         service_control_threads_by_service_name,
                         pending_connections_by_id, clients>>]_vars

\* A data stream presented an identifier while a client stream was pending
\* under another one: the stream is closed and the client is still pending.
C11_Witness ==
    \E s \in DOMAIN sessions :
        /\ Presented(s) = Guids[2]
        /\ sessions[s].stream = "closed"
        /\ \A i \in DOMAIN act_q : act_q[i].name # CMD_CONNECT
        /\ splices = <<>>
        /\ Guids[1] \in DOMAIN pending_connections_by_id

\* The buckets of the registry that hold agent a.
BucketsOf(a) ==
    {g \in DOMAIN agent_control_threads_by_group_name :
        a \in Range(agent_control_threads_by_group_name[g])}

\* C12: whatever verbs an authenticated agent sends, NEW_AGENT for different
\* groups included, its id is in exactly one bucket of the registry once it
\* is registered.
C12_OneBucket ==
    \A a \in DOMAIN sessions :
        CMD_NEW_AGENT \in Range(sessions[a].sent) => Cardinality(BucketsOf(a)) <= 1

\* The broker takes a DEREGISTER off the agent channel.
DeregisterStep ==
    /\ act_q # <<>>
    /\ Head(act_q).name = CMD_DEREGISTER
    /\ act_q' = Tail(act_q)

\* C13: the registry never holds an empty bucket, and the handling of a
\* DEREGISTER leaves its agent in no bucket.
C13_NoEmptyBucket ==
    /\ [](\A g \in DOMAIN agent_control_threads_by_group_name :
              agent_control_threads_by_group_name[g] # <<>>)
    /\ [][DeregisterStep =>
              \A g \in DOMAIN agent_control_threads_by_group_name' :
                  Head(act_q).id \notin Range(agent_control_threads_by_group_name'[g])]_vars

\* An agent that was the only one of two buckets has been deregistered, and
\* another agent is still registered.
C13_Witness ==
    \E a \in DOMAIN sessions :
        /\ SelectSeq(sessions[a].sent, LAMBDA c : c = CMD_NEW_AGENT)
               = <<CMD_NEW_AGENT, CMD_NEW_AGENT>>
        /\ sessions[a].pc = "done"
        /\ \A i \in DOMAIN act_q : act_q[i].id # a
        /\ DOMAIN agent_control_threads_by_group_name = {""}
        /\ a \notin Range(agent_control_threads_by_group_name[""])

\* The session of agent a has ended, by a return or by a panic.
SessionOver(a) ==
    a \in DOMAIN sessions /\ sessions[a].pc \in {"done", "panicked"}

\* C14: whenever the session of a registered agent ends, for whatever
\* reason, a DEREGISTER for it is sent and the agent is eventually in no
\* bucket of the registry of the running broker.
C14_DeregistrationLiveness ==
    \A a \in 1..VerbsMaxConn :
        (SessionOver(a) /\ CMD_NEW_AGENT \in Range(sessions[a].sent))
            ~> (\/ broker = "panicked"
                \/ /\ a \in DOMAIN sessions
                   /\ CMD_DEREGISTER \in Range(sessions[a].sent)
                   /\ BucketsOf(a) = {})

\* What a reconciliation finds for a configuration: an agent is registered
\* with group "" or with the configured group.
CanSupport(sc) ==
    \E agent_gn \in DOMAIN agent_control_threads_by_group_name :
        /\ Len(agent_control_threads_by_group_name[agent_gn]) > 0
        /\ agent_gn = "" \/ agent_gn = sc.agent_group_name
\* The registry changes only in handlers that end with a reconciliation, so
\* this is also what the most recent reconciliation found.
Supported(service_name) ==
    \E i \in DOMAIN configs :
        configs[i].service_name = service_name /\ CanSupport(configs[i])

\* C15: in every state of the running broker, a configured service has a
\* handle exactly when the most recent reconciliation found an agent that
\* supports it.
C15_HandleIffSupported ==
    broker = "running" =>
        \A n \in ServiceNames :
            n \in DOMAIN service_control_threads_by_service_name <=> Supported(n)

\* Service n has a handle and no registered agent supports it.
Unsupported(n) ==
    n \in DOMAIN service_control_threads_by_service_name /\ ~Supported(n)

\* C16: once no registered agent supports a service that has a handle, the
\* broker keeps running, and unless a supporting agent registers again the
\* listener exits and the handle is removed, whichever of the listener's
\* NEW_SERVICE and the agent's DEREGISTER the broker handles first.
C16_ListenerShutdownLiveness ==
    \A n \in {"web"} :
        /\ [](Unsupported(n) => broker = "running")
        /\ Unsupported(n) ~>
              \/ Supported(n)
              \/ /\ n \notin DOMAIN service_control_threads_by_service_name
                 /\ listeners[n].pc = "none"

\* The broker takes a NEW_AGENT off the agent channel.
NewAgentStep ==
    /\ act_q # <<>>
    /\ Head(act_q).name = CMD_NEW_AGENT
    /\ act_q' = Tail(act_q)

\* The destinations configured for service name n.
Endpoints(n) ==
    {configs[i].agent_service_endpoint :
        i \in {j \in DOMAIN configs : configs[j].service_name = n}}

\* C17: right after the broker has handled NEW_AGENT for group g, every
\* configured service that g supports has a handle; a handle made by the
\* step has counter 1 and the destination configured for the service, and
\* the handles there were are unchanged.
C17_NewAgentStartsServices ==
    [][NewAgentStep =>
          LET g == Head(act_q).group_name
              before == service_control_threads_by_service_name
              after == service_control_threads_by_service_name'
          IN  /\ \A i \in DOMAIN configs :
                    (g = "" \/ configs[i].agent_group_name = g) =>
                        configs[i].service_name \in DOMAIN after
              /\ \A n \in (DOMAIN after) \ (DOMAIN before) :
                    /\ after[n].counter = 1
                    /\ after[n].agent_dest_address \in Endpoints(n)
              /\ \A n \in DOMAIN before :
                    n \in DOMAIN after /\ after[n] = before[n]]_vars

\* The sessions that are running.
LiveSessions == {s \in DOMAIN sessions : sessions[s].pc \in {"run", "arg"}}
\* A connection the accept branch dropped.
Refused(s) == sessions[s].pc = "refused"

\* C18: the control sessions alive at one time never exceed the cap, and a
\* connection that is dropped at the cap is written nothing.
C18_AgentCap ==
    /\ Cardinality(LiveSessions) <= Cap
    /\ \A s \in DOMAIN sessions : Refused(s) => sessions[s].wrote = <<>>

\* C20: a stream on which a session has accepted NEW_AGENT is never handed
\* to the broker by a CONNECT and is never an end of a splice.
C20_ControlOrData ==
    \A s \in DOMAIN sessions :
        CMD_NEW_AGENT \in Range(sessions[s].sent) =>
            /\ CMD_CONNECT \notin Range(sessions[s].sent)
            /\ sessions[s].stream # "spliced"
            /\ \A i \in DOMAIN splices : splices[i].agent_stream # s

\* Agent stream s is with its session (which holds its lock) or with the
\* broker, in a command on the agent channel.
AgentStreamHeld(s) ==
    \/ sessions[s].pc \in {"run", "arg", "exiting"}
    \/ \E j \in DOMAIN act_q :
          act_q[j].stream = s /\ act_q[j].name \in {CMD_CONNECT, CMD_CANCEL_CONNECTION}
\* Client stream k is with the broker: in a command of its listener on the
\* service channel, or in a pending connection.
ClientStreamHeld(k) ==
    \/ \E j \in DOMAIN sct_q : sct_q[j].stream = k /\ sct_q[j].name = CMD_CONNECT
    \/ \E c \in DOMAIN pending_connections_by_id :
          pending_connections_by_id[c].stream = k

\* C19: while a splice copies, its two streams are held by nothing else (no
\* session, no command in flight, no pending connection, no other splice)
\* and the session that received the agent stream reads and writes nothing;
\* no byte is moved between the two streams before that session has
\* terminated.
C19_ExclusiveOwnership ==
    /\ [](\A i \in DOMAIN splices :
              splices[i].pc = "copying" =>
                  /\ ~AgentStreamHeld(splices[i].agent_stream)
                  /\ ~ClientStreamHeld(splices[i].server_stream)
                  /\ \A j \in DOMAIN splices :
                        j # i => /\ splices[j].agent_stream # splices[i].agent_stream
                                 /\ splices[j].server_stream # splices[i].server_stream)
    /\ [][\A i \in DOMAIN splices :
              LET a == splices[i].agent_stream
                  k == splices[i].server_stream
              IN  /\ splices[i].pc = "copying" =>
                        /\ sessions'[a].lines = sessions[a].lines
                        /\ sessions'[a].wrote = sessions[a].wrote
                        /\ sessions'[a].sent = sessions[a].sent
                        /\ sessions'[a].pc = sessions[a].pc
                  /\ (clients'[k].recv # clients[k].recv
                         \/ Len(clients'[k].rx) < Len(clients[k].rx)) =>
                        sessions[a].pc \in {"done", "panicked"}]_vars

\* A splice holds both locks and has copied bytes of the agent stream to the
\* client stream.
C19_Witness ==
    \E i \in DOMAIN splices :
        /\ splices[i].pc = "copying"
        /\ sessions[splices[i].agent_stream].pc = "done"
        /\ clients[splices[i].server_stream].recv # <<>>

\* The session of a registered agent reads a KEEP_ALIVE line.
SessionReadsKeepAlive(s) ==
    /\ sessions[s].agent_ready
    /\ sessions[s].pc = "run"
    /\ Len(sessions'[s].lines) = Len(sessions[s].lines) + 1
    /\ sessions'[s].lines[Len(sessions'[s].lines)] = CMD_KEEP_ALIVE
\* The agent reads a KEEP_ALIVE or OK line in its inner loop.
AgentReadsKeepAlive ==
    /\ agent.pc = "inner"
    /\ LET r == read_line(sessions[agent.conn].tx, ServerClosed(agent.conn))
       IN  /\ r.done
           /\ Text(rm_newline(r.buf)) \in {CMD_KEEP_ALIVE, CMD_OK}
           /\ sessions'[agent.conn].tx = r.rx

\* C21: a KEEP_ALIVE line changes nothing in either direction: the session
\* of a registered agent that reads one stays in its loop and sends nothing
\* to the broker, whose maps stay as they are, and the agent that reads
\* KEEP_ALIVE or OK in its inner loop stays connected and spawns nothing.
C21_KeepAliveNoOp ==
    [][ /\ \A s \in DOMAIN sessions :
             SessionReadsKeepAlive(s) =>
                 /\ sessions'[s].pc = "run"
                 /\ sessions'[s].stream = sessions[s].stream
                 /\ act_q' = act_q
                 /\ UNCHANGED brokerVars
        /\ AgentReadsKeepAlive => (agent' = agent /\ tasks' = tasks) ]_vars

\* A line the round trip is stated for: no newline in it and shorter than
\* the cap.
RoundTripLine(l) == NL \notin Range(l) /\ Len(l) < LinesCap

\* C22: when every line written so far holds no newline and is shorter than
\* the cap, the lines read back with the read function and rm_newline are
\* the lines written, in the order written (the empty line included).
C22_LineRoundTrip ==
    (\A i \in DOMAIN pipe.written : RoundTripLine(pipe.written[i])) =>
        /\ Len(pipe.read) <= Len(pipe.written)
        /\ \A i \in DOMAIN pipe.read : pipe.read[i] = pipe.written[i]
\* An empty line and then a line one byte shorter than the cap have both
\* been read back.
C22_Witness ==
    /\ Len(pipe.written) = 2 /\ Len(pipe.read) = 2
    /\ pipe.written[1] = <<>>
    /\ Len(pipe.written[2]) = LinesCap - 1 /\ RoundTripLine(pipe.written[2])
    /\ pipe.read = pipe.written

\* The agent is on a control stream that the server has closed or lost.
ControlStreamFailed ==
    /\ agent.pc \in {"handshake", "inner"}
    /\ ServerClosed(agent.conn)
\* A dial that connects writes the handshake on the new stream.
DialWritesHandshake ==
    (agent.pc = "dial" /\ agent'.pc = "handshake") =>
        /\ Len(sessions') = Len(sessions) + 1
        /\ agent'.conn = Len(sessions')
        /\ sessions'[agent'.conn].rx =
               <<CMD_PSK, NL, agent.pre_shared_key, NL, CMD_NEW_AGENT, NL>>
               \o Bytes(agent.group_name) \o <<NL>>

\* C23: the agent's control loop never terminates: a failed dial and a
\* control stream that has failed (in the handshake or after it) lead,
\* through the backoff, to the next dial, a dial is made while
\* the bound on connections leaves room for it, and a dial that connects
\* writes PRE_SHARED_KEY, the key, NEW_AGENT and the group name again.
C23_ReconnectLiveness ==
    /\ [](agent.pc \in {"dial", "handshake", "inner", "backoff"})
    /\ (ControlStreamFailed \/ agent.pc = "backoff") ~> (agent.pc = "dial")
    /\ (agent.pc = "dial") ~>
           (agent.pc \in {"handshake", "backoff"} \/ Len(sessions) >= ReconnectMaxConn)
    /\ [][DialWritesHandshake]_vars
\* The agent is on its second control stream, the first having failed.
C23_Witness ==
    /\ agent.pc = "handshake"
    /\ \E c \in DOMAIN sessions :
           /\ c < agent.conn
           /\ sessions[c].peer = "agent"
           /\ sessions[c].stream = "closed"
    /\ sessions[agent.conn].rx = AgentHandshake(agent.pre_shared_key, agent.group_name)

\* The CONNECT orders in what a session has written, in the order written.
RECURSIVE OrdersIn(_)
OrdersIn(w) ==
    IF w = <<>> THEN <<>>
    ELSE IF Head(w) = CMD_CONNECT /\ Len(w) >= 6
            /\ w[2] = NL /\ w[4] = NL /\ w[6] = NL
    THEN <<[dest_address |-> w[3], connection_id |-> w[5]]>>
         \o OrdersIn(SubSeq(w, 7, Len(w)))
    ELSE OrdersIn(Tail(w))
\* The destination and identifier each task of the agent was spawned with.
TasksSpawned ==
    [t \in DOMAIN tasks |-> [dest_address |-> tasks[t].dest_address,
                             connection_id |-> tasks[t].connection_id]]

\* C24: once the agent has read everything the server wrote on its control
\* stream, it is still in its inner loop and has spawned one task for each
\* CONNECT order written, with the destination and the identifier of that
\* order, whatever the keep-alive timer did in between.
C24_OneTaskPerOrder ==
    (agent.pc = "inner" /\ sessions[agent.conn].tx = <<>>) =>
        TasksSpawned = OrdersIn(sessions[agent.conn].wrote)

\* The broker handles a client connection and finds a candidate whose
\* session is running.
DispatchStep ==
    /\ Len(dispatch') = Len(dispatch) + 1
    /\ dispatch'[Len(dispatch')].supporting_agents # <<>>
    /\ ChannelOpen(dispatch'[Len(dispatch')].chosen_agent)
\* The orders the broker has sent to session s, in the order sent.
OrdersSent(s) ==
    LET mine == SelectSeq(dispatch, LAMBDA d : d.delivered /\ d.chosen_agent = s)
    IN  [i \in DOMAIN mine |->
            [dest_address |-> mine[i].agent_dest_address,
             connection_id |-> mine[i].connection_id]]
\* The orders session s holds in its channel, not yet written.
OrdersQueued(s) ==
    [i \in DOMAIN sessions[s].inbox |->
        [dest_address |-> sessions[s].inbox[i].agent_dest_address,
         connection_id |-> sessions[s].inbox[i].connection_id]]

\* C25: a client connection handled with a candidate creates one pending
\* entry, under an identifier that was in no entry, no splice and no
\* earlier order, and puts one CONNECT order with that identifier and the
\* handle's destination address into the channel of one session, that of a
\* candidate; every other entry and session is untouched; and what each
\* session has written and still holds are the orders sent to it, each
\* written as CONNECT, destination, identifier.
C25_ConnectionDispatch ==
    /\ [][ DispatchStep =>
             LET d == dispatch'[Len(dispatch')]
                 id == d.connection_id
                 handle == service_control_threads_by_service_name[d.service_name]
                 order == [connection_id |-> id,
                           agent_dest_address |-> handle.agent_dest_address]
             IN  /\ id \notin DOMAIN pending_connections_by_id
                 /\ \A e \in DOMAIN dispatch : dispatch[e].connection_id # id
                 /\ \A i \in DOMAIN splices : splices[i].connection_id # id
                 /\ DOMAIN pending_connections_by_id' =
                        DOMAIN pending_connections_by_id \cup {id}
                 /\ \A c \in DOMAIN pending_connections_by_id :
                        pending_connections_by_id'[c] = pending_connections_by_id[c]
                 /\ pending_connections_by_id'[id].stream = d.stream
                 /\ pending_connections_by_id'[id].agent_dest_address =
                        handle.agent_dest_address
                 /\ d.chosen_agent \in Range(d.supporting_agents)
                 /\ sessions'[d.chosen_agent] =
                        [sessions[d.chosen_agent] EXCEPT !.inbox = Append(@, order)]
                 /\ \A s \in DOMAIN sessions :
                        s # d.chosen_agent => sessions'[s] = sessions[s] ]_vars
    /\ [](\A s \in DOMAIN sessions :
             OrdersIn(sessions[s].wrote) \o OrdersQueued(s) = OrdersSent(s))
\* A connection that had two candidates has been ordered and its order
\* written on the control stream of the chosen one.
C25_Witness ==
    \E d \in DOMAIN dispatch :
        /\ Len(dispatch[d].supporting_agents) = 2
        /\ dispatch[d].delivered
        /\ \E i \in DOMAIN OrdersIn(sessions[dispatch[d].chosen_agent].wrote) :
               OrdersIn(sessions[dispatch[d].chosen_agent].wrote)[i].connection_id =
                   dispatch[d].connection_id

\* The broker handles a client connection and chooses an agent whose session
\* has ended, so that the send on its channel fails.
FailedPush ==
    /\ Len(dispatch') = Len(dispatch) + 1
    /\ dispatch'[Len(dispatch')].supporting_agents # <<>>
    /\ ~ChannelOpen(dispatch'[Len(dispatch')].chosen_agent)

\* C26: when the send of the CONNECT order to the chosen agent fails, no
\* session is given the order, the client stream is dropped, and no pending
\* entry for the connection remains.
C26_FailedPush ==
    [][ FailedPush =>
          LET d == dispatch'[Len(dispatch')]
          IN  /\ \A s \in DOMAIN sessions : sessions'[s].inbox = sessions[s].inbox
              /\ clients'[d.stream].state = "dropped"
              /\ d.connection_id \notin DOMAIN pending_connections_by_id'
              /\ \A c \in DOMAIN pending_connections_by_id' :
                     pending_connections_by_id'[c].stream # d.stream ]_vars

\* Session s has read NEW_AGENT and its group line.
CompletedNewAgent(s) ==
    \E i \in DOMAIN sessions[s].lines :
        i < Len(sessions[s].lines) /\ sessions[s].lines[i] = CMD_NEW_AGENT
\* Session s writes on its stream for the first time.
FirstWrite(s) == sessions[s].wrote = <<>> /\ sessions'[s].wrote # <<>>

\* C27: the first thing a session writes is the line OK, in the step that
\* handles NEW_AGENT and its group and sends NEW_AGENT to the broker, which
\* has no NEW_AGENT of that session before it; so no KEEP_ALIVE and no
\* CONNECT order precedes the OK, and a session that has not completed
\* NEW_AGENT has written nothing.
C27_OkFirst ==
    /\ [][ \A s \in DOMAIN sessions :
              FirstWrite(s) =>
                  /\ sessions'[s].wrote = <<CMD_OK, NL>>
                  /\ ~CompletedNewAgent(s) /\ CompletedNewAgent(s)'
                  /\ CMD_NEW_AGENT \notin Range(sessions[s].sent)
                  /\ sessions'[s].sent = Append(sessions[s].sent, CMD_NEW_AGENT) ]_vars
    /\ [](\A s \in DOMAIN sessions :
             /\ sessions[s].wrote # <<>> =>
                    SubSeq(sessions[s].wrote, 1, 2) = <<CMD_OK, NL>>
             /\ ~CompletedNewAgent(s) =>
                    /\ sessions[s].wrote = <<>>
                    /\ sessions[s].inbox = <<>>)
\* A session has written OK, then a KEEP_ALIVE and a CONNECT order.
C27_Witness ==
    \E s \in DOMAIN sessions :
        /\ Len(sessions[s].wrote) > 2
        /\ SubSeq(sessions[s].wrote, 1, 2) = <<CMD_OK, NL>>
        /\ CMD_KEEP_ALIVE \in Range(sessions[s].wrote)
        /\ CMD_CONNECT \in Range(sessions[s].wrote)

\* The agent has read the reply to its handshake, or the end of the stream.
HandshakeRead == agent.pc = "handshake" /\ agent'.pc # "handshake"
\* The first line the server wrote on the agent's stream is OK and the
\* agent has just taken it.
TookOk ==
    /\ Len(sessions[agent.conn].tx) >= 2
    /\ SubSeq(sessions[agent.conn].tx, 1, 2) = <<CMD_OK, NL>>
    /\ SubSeq(sessions[agent.conn].wrote, 1, 2) = <<CMD_OK, NL>>
    /\ sessions'[agent.conn].tx = SubSeq(sessions[agent.conn].tx, 3,
                                         Len(sessions[agent.conn].tx))

\* C28: the agent enters its inner loop only by reading OK as the first
\* line of the stream; otherwise it abandons the stream, spawns no task,
\* sends no keep-alive and goes to the backoff, from which it only dials
\* again; tasks and keep-alives exist only for an agent that has read OK.
C28_HandshakeGate ==
    /\ [][ /\ HandshakeRead =>
                IF agent'.pc = "inner"
                THEN TookOk /\ agent'.conn = agent.conn /\ tasks' = tasks
                ELSE /\ ~(Len(sessions[agent.conn].tx) >= 2
                          /\ SubSeq(sessions[agent.conn].tx, 1, 2) = <<CMD_OK, NL>>)
                     /\ agent'.pc = "backoff" /\ agent'.conn = 0
                     /\ agent'.keep_alives = agent.keep_alives
                     /\ sessions'[agent.conn].eof
                     /\ tasks' = tasks
           /\ (agent.pc = "backoff" /\ agent' # agent) => agent'.pc = "dial"
           /\ (agent.pc # "inner") =>
                  (tasks' = tasks /\ agent'.keep_alives = agent.keep_alives) ]_vars
    /\ [](agent.pc = "inner" =>
             /\ Len(sessions[agent.conn].wrote) >= 2
             /\ SubSeq(sessions[agent.conn].wrote, 1, 2) = <<CMD_OK, NL>>)
\* An agent whose handshake was answered with the end of the stream is in
\* the backoff, or past it, having spawned nothing.
C28_Witness ==
    /\ agent.pc \in {"backoff", "dial"}
    /\ \E c \in DOMAIN sessions :
           /\ sessions[c].peer = "agent"
           /\ sessions[c].wrote = <<>>
           /\ sessions[c].eof
    /\ tasks = <<>>
    /\ agent.keep_alives = 0

\* The broker handles a CANCEL_CONNECTION.
CancelStep ==
    /\ broker = "running"
    /\ act_q # <<>>
    /\ Head(act_q).name = CMD_CANCEL_CONNECTION
    /\ act_q' = Tail(act_q)

Tunnels ==
    {p \in (DOMAIN splices) \X (DOMAIN tasks) :
        splices[p[1]].agent_stream = tasks[p[2]].conn}

\* C29: a splice returns only when both of its directions have read the end
\* of their source and passed on everything before it; while only one
\* direction has ended the splice is still copying; and a stream shows its
\* end to the client or to the destination only after every byte the other
\* end wrote, also those written after the first direction had ended.
C29_HalfClose ==
    /\ \A i \in DOMAIN splices :
           LET k == splices[i].server_stream
               s == splices[i].agent_stream
           IN  /\ splices[i].pc = "finished" =>
                      /\ clients[k].eof /\ clients[k].rx = <<>> /\ sessions[s].tx_eof
                      /\ sessions[s].eof /\ sessions[s].rx = <<>> /\ clients[k].recv_eof
               /\ (sessions[s].tx_eof # clients[k].recv_eof) => splices[i].pc = "copying"
    /\ \A t \in DOMAIN tasks :
           tasks[t].conn # 0 =>
               LET s == tasks[t].conn
               IN  /\ tasks[t].pc = "finished" =>
                          /\ tasks[t].dest_eof /\ tasks[t].from_dest = <<>>
                          /\ sessions[s].eof
                          /\ sessions[s].tx_eof /\ sessions[s].tx = <<>>
                          /\ tasks[t].to_dest_eof
                   /\ (tasks[t].to_dest_eof # sessions[s].eof) =>
                          tasks[t].pc = "splicing"
    /\ \A p \in Tunnels :
           LET k == splices[p[1]].server_stream
               t == p[2]
           IN  /\ IsPrefix(clients[k].recv, tasks[t].dest_sent)
               /\ IsPrefix(tasks[t].to_dest, clients[k].sent)
               /\ clients[k].recv_eof => clients[k].recv = tasks[t].dest_sent
               /\ tasks[t].to_dest_eof => tasks[t].to_dest = clients[k].sent
\* The client's end of stream had reached the destination before the
\* destination wrote its bytes, and the client has received them all.
C29_Witness ==
    \E p \in Tunnels :
        /\ tasks[p[2]].dest_late = Len(DestPayload)
        /\ clients[splices[p[1]].server_stream].recv = DestPayload
        /\ clients[splices[p[1]].server_stream].recv_eof
        /\ splices[p[1]].pc = "finished"
        /\ tasks[p[2]].pc = "finished"

\* Every verb and argument of a written sequence is followed by a newline.
Framed(w) == \A i \in 1..Len(w) : w[i] # NL => (i < Len(w) /\ w[i + 1] = NL)

\* What the agent side writes in a step: the bytes a new stream is opened
\* with, and the bytes added to the agent's control stream.
AgentWrites ==
    /\ \A s \in DOMAIN sessions' \ DOMAIN sessions :
           sessions'[s].peer \in {"agent", "task", "cancel"} => Framed(sessions'[s].rx)
    /\ \A s \in DOMAIN sessions :
           (s = agent.conn /\ agent.pc = "inner" /\ Len(sessions'[s].rx) > Len(sessions[s].rx))
               => Framed(SubSeq(sessions'[s].rx, Len(sessions[s].rx) + 1,
                                Len(sessions'[s].rx)))

\* C31: every verb and every argument the server or the agent writes on a
\* stream, the agent's KEEP_ALIVE included, is followed by a newline: what a
\* session has written is a sequence of complete lines, and so is what the
\* agent writes in any step.
C31_WireFraming ==
    /\ [](\A s \in DOMAIN sessions : Framed(sessions[s].wrote))
    /\ [][AgentWrites]_vars

\* The tunnelling specification under the scheduling of the two runtimes:
\* the broker loop and every spawned task are polled again and again, so the
\* system does not stop while a step is possible.  (No step of Next can be
\* repeated for ever: each consumes a message, a byte or a bounded budget.)
Fairness == WF_vars(Next)

SpecFair == Init /\ [][Next]_vars /\ Fairness

\* C32: every entry inserted into pending_connections_by_id is eventually
\* removed, whatever the chosen agent then does.
C32_PendingLiveness ==
    \A c \in Range(Guids) :
        (c \in DOMAIN pending_connections_by_id)
            ~> (c \notin DOMAIN pending_connections_by_id)

\* The broker handles a client connection for a service whose handle the
\* most recent reconciliation kept because a registered agent supports it.
ConnectSupported ==
    /\ SctConnect
    /\ Head(sct_q).id \in DOMAIN service_control_threads_by_service_name
    /\ Supported(Head(sct_q).id)

\* C33: a client connection to a service that reconciliation keeps for the
\* registry as it is finds a candidate and is dispatched to an agent.
C33_ReconcileSelectAgree ==
    [][ConnectSupported =>
          /\ SupportingAgents(Head(sct_q).id, agent_control_threads_by_group_name) # <<>>
          /\ dispatch'[Len(dispatch')].delivered]_vars

\* ------------------------------------------------------- bounded channels
\* The capacity of the mpsc channels (mpsc::channel::<AppCommand>(1000)),
\* scaled down so that a full channel is within reach.
ChanCap == 1
ChanMaxConn == 2
ChanMaxClients == 2

\* The head of the service channel while the broker is inside
\* `chosen_agent.tx.send(agent_mcmd).await` on a full channel: the command
\* has been taken and its handler has not returned.
SENDING == "<send.await>"
BrokerSending == sct_q # <<>> /\ Head(sct_q).name = SENDING

\* The agent the service CONNECT handler chooses for the command at the head
\* of the service channel (0 when there is none).
ChosenAgent ==
    LET service_name == Head(sct_q).id
        svc == service_control_threads_by_service_name
        supporting_agents ==
            SupportingAgents(service_name, agent_control_threads_by_group_name)
        n == Len(supporting_agents)
    IN  IF service_name \in DOMAIN svc /\ n > 0
        THEN supporting_agents[ChosenIndex(svc[service_name].counter, n) + 1]
        ELSE 0

\* Whether a send on the channel of session s would have to wait.
ChannelFull(s, cap) == ChannelOpen(s) /\ Len(sessions[s].inbox) >= cap

\* Sender::send(...).await waits while the channel is full and its receiver
\* is alive.
SendWaits(s, cap) == ChannelFull(s, cap)

\* Service channel, CMD_CONNECT, when the send to the chosen agent (if any)
\* returns at once.
SctConnectSent(cap) ==
    /\ sct_q # <<>>
    /\ Head(sct_q).name = CMD_CONNECT
    /\ ChosenAgent # 0 => ~SendWaits(ChosenAgent, cap)
    /\ SctConnect

\* Service channel, CMD_CONNECT, when the channel of the chosen agent is
\* full: the handler has stored the pending entry and advanced the counter,
\* and the broker task is suspended in the send.
SctConnectWaits(cap) ==
    /\ broker = "running"
    /\ sct_q # <<>>
    /\ Head(sct_q).name = CMD_CONNECT
    /\ ChosenAgent # 0
    /\ SendWaits(ChosenAgent, cap)
    /\ LET mcmd == Head(sct_q)
           service_name == mcmd.id
           svc == service_control_threads_by_service_name
           abg == agent_control_threads_by_group_name
           sct == svc[service_name]
           connection_id == Guids[guids + 1]
       IN  /\ guids' = guids + 1
           /\ pending_connections_by_id' =
                  MapPut(pending_connections_by_id, connection_id,
                         [service_name |-> service_name, stream |-> mcmd.stream,
                          agent_dest_address |-> sct.agent_dest_address])
           /\ clients' = [clients EXCEPT ![mcmd.stream].state = "pending"]
           /\ service_control_threads_by_service_name' =
                  [svc EXCEPT ![service_name].counter = sct.counter + 1]
           /\ dispatch' = Append(dispatch,
                  [stream |-> mcmd.stream, service_name |-> service_name,
                   connection_id |-> connection_id,
                   agent_dest_address |-> sct.agent_dest_address,
                   supporting_agents |-> SupportingAgents(service_name, abg),
                   counter |-> sct.counter, chosen_agent |-> ChosenAgent,
                   delivered |-> FALSE, registry |-> abg])
           /\ sct_q' = <<SctCommand(SENDING, service_name, mcmd.stream)>> \o Tail(sct_q)
    /\ UNCHANGED <<configs, pipe, broker, agent_control_threads_by_group_name, act_q,
                   sessions, listeners, splices, agentVars>>

\* The suspended send returns: the channel has room again, or its receiver
\* has been dropped and the send is an error.
BrokerSendReturns(cap) ==
    /\ broker = "running"
    /\ BrokerSending
    /\ LET d == dispatch[Len(dispatch)]
           s == d.chosen_agent
       IN  /\ ~SendWaits(s, cap)
           /\ sessions' =
                  IF ChannelOpen(s)
                  THEN [sessions EXCEPT ![s].inbox =
                           Append(@, [connection_id |-> d.connection_id,
                                      agent_dest_address |-> d.agent_dest_address])]
                  ELSE sessions
           /\ dispatch' = [dispatch EXCEPT ![Len(dispatch)].delivered = ChannelOpen(s)]
    /\ sct_q' = Tail(sct_q)
    /\ UNCHANGED <<configs, pipe, brokerVars, act_q, guids, listeners, clients, splices,
                   agentVars>>

\* An agent that registers and then writes a verb with no argument line
\* after it, so that its session waits inside the handler of that verb.
StalledAgent == AgentHandshake(pre_shared_key, "") \o <<CMD_NEW_AGENT, NL>>

\* An agent that registers and stays silent next to one that stalls its
\* session, and clients whose connections the broker orders them to proxy.
ChanScripts == { AgentHandshake(pre_shared_key, ""), StalledAgent }

ChanInit == Start({WebConfigs}, {""})

ChanNext ==
    \/ ~BrokerSending /\ ReconcileTick
    \/ ~BrokerSending /\ ActNewAgent
    \/ ~BrokerSending /\ SctNewService
    \/ SctConnectSent(ChanCap)
    \/ SctConnectWaits(ChanCap)
    \/ BrokerSendReturns(ChanCap)
    \/ \E s \in DOMAIN sessions : SessionRead(s)
    \/ \E s \in DOMAIN sessions : SessionRecv(s)
    \/ \E n \in ServiceNames : ListenerStart(n, FALSE)
    \/ \E n \in ServiceNames : ListenerAccept(n, ChanMaxClients)
    \/ \E script \in ChanScripts : PeerConnect(script, ChanMaxConn)

\* The scheduling of the server's runtime: the system does not stop while a
\* step is possible.  Nothing obliges a peer to write.
ChanFairness == WF_vars(ChanNext)

SpecChannels == ChanInit /\ [][ChanNext]_vars /\ ChanFairness

\* C34: the broker never waits for ever in its send to an agent session:
\* it always comes back to its select and takes its next event.
C34_NoChannelDeadlock == BrokerSending ~> ~BrokerSending

\* A step of the broker that runs reconcile_agents_and_services: the timer
\* branch and the two handlers that change the agent registry.
ReconcileRuns == ReconcileTick \/ ActNewAgent \/ ActDeregister

\* C35: whenever a reconciliation finds no supporting agent for a service
\* that has a handle, the handle holds the listener's channel.
C35_ShutdownChannelPresent ==
    [][ReconcileRuns =>
          \A n \in ServiceNames :
              (n \in DOMAIN service_control_threads_by_service_name /\ ~Supported(n)')
                  => service_control_threads_by_service_name[n].tx]_vars

\* The broker handles the DEREGISTER of a session that never sent NEW_AGENT.
NeverRegistered(s) == CMD_NEW_AGENT \notin Range(sessions[s].sent)
UnregisteredDeregister ==
    /\ ActDeregister
    /\ NeverRegistered(Head(act_q).id)

\* C36: handling the DEREGISTER of a session that never registered (a data
\* stream, a cancellation stream, a stream that failed authentication)
\* leaves the agent registry and the pending connections as they were.
C36_UnregisteredDeregister ==
    [][UnregisteredDeregister =>
          /\ agent_control_threads_by_group_name' = agent_control_threads_by_group_name
          /\ pending_connections_by_id' = pending_connections_by_id]_vars

\* The DEREGISTER of a data stream that presented an identifier has been
\* handled while an agent was registered and a client was pending.
C36_Witness ==
    /\ agent_control_threads_by_group_name # EmptyMap
    /\ pending_connections_by_id # EmptyMap
    /\ \E s \in DOMAIN sessions :
           /\ sessions[s].sent = <<CMD_CONNECT, CMD_DEREGISTER>>
           /\ \A i \in DOMAIN act_q : act_q[i].id # s

\* ------------------------------------------------- data streams at the cap
TunnelMaxConn == 2
TunnelMaxClients == 1

\* An agent that registers and stays silent, and the data streams an agent
\* opens for the first connection identifiers, on a server whose cap is Cap.
TunnelScripts ==
    { AgentHandshake(pre_shared_key, ""),
      DataOpener(pre_shared_key, Guids[1]), DataOpener(pre_shared_key, Guids[2]) }

TunnelInit == Start({WebConfigs}, {""})

TunnelNext ==
    \/ ReconcileTick
    \/ ActNewAgent
    \/ ActConnect
    \/ ActDeregister
    \/ SctNewService
    \/ SctConnect
    \/ \E s \in DOMAIN sessions : SessionRead(s)
    \/ \E s \in DOMAIN sessions : SessionRecv(s)
    \/ \E s \in DOMAIN sessions : SessionExit(s)
    \/ \E n \in ServiceNames : ListenerStart(n, FALSE)
    \/ \E n \in ServiceNames : ListenerAccept(n, TunnelMaxClients)
    \/ \E script \in TunnelScripts : PeerConnectUnder(Cap, script, TunnelMaxConn)

SpecTunnel == TunnelInit /\ [][TunnelNext]_vars

\* The connections accepted in a step that open with CONNECT for an
\* identifier that is pending.
DataStreamsArriving ==
    {s \in DOMAIN sessions' \ DOMAIN sessions :
        \E c \in DOMAIN pending_connections_by_id :
            sessions'[s].rx = DataOpener(pre_shared_key, c)}

\* C37: a data stream opened for a pending identifier gets a session,
\* however many agents are registered.
C37_CapSparesTunnels ==
    [][\A s \in DataStreamsArriving : ~Refused(s)']_vars

\* ------------------------------------------------------ interrupted reads
InterruptMaxClients == 1
InterruptMaxKeepAlive == 1

\* A peer that writes its script one unit at a time: pipe.input holds what
\* it has still to write and pipe.written what it has written.  It is the
\* first to connect.
SlowScripts == { TwoGroups("", "g1") \o Leave }

PeerDial(script) ==
    /\ sessions = <<>>
    /\ Accept("peer", <<>>, FALSE)
    /\ pipe' = NewPipe(script)
    /\ UNCHANGED <<configs, brokerVars, act_q, sct_q, guids, listeners, clients,
                   splices, agentVars, dispatch>>

PeerWriteUnit ==
    /\ sessions # <<>>
    /\ pipe.input # <<>>
    /\ sessions' = [sessions EXCEPT ![1].rx = Append(@, Head(pipe.input))]
    /\ pipe' = [pipe EXCEPT !.input = Tail(@), !.written = Append(@, Head(pipe.input))]
    /\ UNCHANGED <<configs, brokerVars, act_q, sct_q, guids, listeners, clients,
                   splices, agentVars, dispatch>>

InterruptInit == Start({WebConfigs}, {""})

InterruptNext ==
    \/ ReconcileTick
    \/ ActNewAgent
    \/ ActDeregister
    \/ SctNewService
    \/ SctConnect
    \/ \E s \in DOMAIN sessions : SessionRead(s)
    \/ \E s \in DOMAIN sessions : SessionArg(s)
    \/ \E s \in DOMAIN sessions : SessionRecv(s)
    \/ \E s \in DOMAIN sessions : SessionKeepAlive(s, InterruptMaxKeepAlive)
    \/ \E n \in ServiceNames : ListenerStart(n, FALSE)
    \/ \E n \in ServiceNames : ListenerAccept(n, InterruptMaxClients)
    \/ \E script \in SlowScripts : PeerDial(script)
    \/ PeerWriteUnit

SpecInterrupt == InterruptInit /\ [][InterruptNext]_vars

\* The bytes of a sequence of lines, each with its newline.
Encode(lines) == Flatten([i \in DOMAIN lines |-> Bytes(lines[i]) \o <<NL>>])

\* C38: whatever ticks and broker messages come between the reads of a
\* session, the lines it has dispatched, followed by the part of a line it
\* holds and by what it has not read yet, are the bytes the peer wrote.
C38_InterruptionSafe ==
    sessions # <<>> =>
        pipe.written = Encode(sessions[1].lines) \o sessions[1].buf \o sessions[1].rx

\* A select dropped a read that held part of a line, and the session went
\* on to dispatch every line of the script.
C38_Witness ==
    /\ sessions # <<>>
    /\ sessions[1].abandoned
    /\ sessions[1].lines =
           <<CMD_PSK, pre_shared_key, CMD_NEW_AGENT, "", CMD_NEW_AGENT, "g1", "BYE">>

\* ------------------------------------------------ settled reconciliation
\* Every service a registered agent supports has its handle with the
\* listener's channel and a listener that was not told to stop, and no
\* other service has a handle.
Settled ==
    /\ broker = "running"
    /\ \A n \in ServiceNames :
          IF Supported(n)
          THEN /\ n \in DOMAIN service_control_threads_by_service_name
               /\ service_control_threads_by_service_name[n].tx
               /\ listeners[n].pc = "listening"
               /\ ~listeners[n].shutdown
          ELSE n \notin DOMAIN service_control_threads_by_service_name

\* C39: a reconciliation on the timer in a settled state, the registry
\* being what it was at the last one, spawns no listener, sends no
\* SHUTDOWN and leaves the handles as they are, also for a service name
\* configured under a supported and an unsupported group.
C39_SettledReconcileIdempotent ==
    [][(ReconcileTick /\ Settled) =>
          /\ service_control_threads_by_service_name' =
                 service_control_threads_by_service_name
          /\ listeners' = listeners]_vars

====
